---- MODULE Spec2Model ----
(***************************************************************************)
(* Model of the sonata iteration engine: the session store, the progress   *)
(* log, the work-item source (local specs folder / Notion board), the      *)
(* completion detector and the three loop controllers                      *)
(*   loopCommand (Notion loop), runLocalLoopCommand + runSpecLoop (local   *)
(*   loop) and runLocalCommand (local single run).                         *)
(***************************************************************************)
EXTENDS Integers, Sequences, FiniteSets, TLC

VARIABLES
  specs,      \* work-item source: id -> [status, content, priority, created]
  session,    \* .sonata/session.json
  progress,   \* progress.txt
  cmd,        \* command being executed: "none", "loop_local", "loop_notion", "run_local"
  pc,         \* position of the running command
  loc,        \* the command's local variables
  run,        \* observations about the current command execution
  runs,       \* number of commands started so far
  out,        \* agent output handed to the completion detector
  detected,   \* result of the completion test on out ("unknown" before the test)
  dir,        \* order in which readdirSync lists the spec files
  picked,     \* results of the getNextSpec calls made so far
  arg,        \* argument of classifyTask / body handed to the metrics
  ret,        \* their result ("unknown" before the call)
  file,       \* .sonata/session.json as it lies on disk
  calls,      \* the calls made to the session store, with what they returned
  inst,       \* the controller instances that share one working directory
  oc          \* an invocation of runOpenCode: its server, stream and result

\* the registers of the functions that are exercised on their own
aux == <<out, detected, dir, picked, arg, ret, file, calls, inst, oc>>

vars == <<specs, session, progress, cmd, pc, loc, run, runs, aux>>

(***************************************************************************)
(* Bounds                                                                  *)
(***************************************************************************)
MaxIterations == 2   \* largest iteration cap a loop is started with
MaxRuns == 2         \* number of command executions in one behaviour
MaxLen == 4          \* longest agent output of the detector specification

Items == {"a", "b"}

(***************************************************************************)
(* Agent output text.  A text is a sequence of symbols:                    *)
(*   "S"  the literal PRD_COMPLETE_SIGNAL_7x9k2m                           *)
(*   "H"  the checkpoint marker together with its description              *)
(*   "w"  a whitespace character other than a line terminator              *)
(*   "n"  a line terminator                                                *)
(*   "x"  any other character                                              *)
(***************************************************************************)
Alphabet == {"S", "w", "n", "x"}

IsWs(c) == c \in {"w", "n"}

RECURSIVE TextsUpTo(_)
TextsUpTo(k) ==
  IF k = 0 THEN {<<>>}
  ELSE LET shorter == TextsUpTo(k - 1)
       IN  shorter \cup {Append(t, c) : t \in {u \in shorter : Len(u) = k - 1}, c \in Alphabet}

\* /^\s*PRD_COMPLETE_SIGNAL_7x9k2m\s*$/m tested against a text (the unanchored variant)
UnanchoredTest(text) == \E s \in 1..Len(text) : text[s] = "S"

\* /^\s*PRD_COMPLETE_SIGNAL_7x9k2m\s*$/m tested against a text:
\* ^ matches at the start of input or after a line terminator, \s* runs over
\* any whitespace (line terminators included), $ matches at the end of input
\* or before a line terminator.
COMPLETE_SIGNAL_REGEX(text) ==
  \E p \in 1..Len(text) :
    /\ (p = 1 \/ text[p - 1] = "n")
    /\ \E s \in p..Len(text) :
         /\ text[s] = "S"
         /\ \A k \in p..(s - 1) : IsWs(text[k])
         /\ \E e \in s..Len(text) :
              /\ \A k \in (s + 1)..e : IsWs(text[k])
              /\ (e = Len(text) \/ text[e + 1] = "n")

\* the checkpoint marker is recognised anywhere in the output
DetectCheckpoint(text) == \E k \in 1..Len(text) : text[k] = "H"

(***************************************************************************)
(* Lines of a text, for stating what the detector is meant to recognise.   *)
(***************************************************************************)
RECURSIVE SplitLines(_)
SplitLines(text) ==
  IF \A k \in 1..Len(text) : text[k] # "n" THEN <<text>>
  ELSE LET brk == CHOOSE k \in 1..Len(text) :
                    text[k] = "n" /\ \A j \in 1..(k - 1) : text[j] # "n"
       IN  <<SubSeq(text, 1, brk - 1)>> \o SplitLines(SubSeq(text, brk + 1, Len(text)))

SentinelAlone(line) ==
  /\ Cardinality({k \in 1..Len(line) : line[k] = "S"}) = 1
  /\ \A k \in 1..Len(line) : line[k] \in {"S", "w"}

SomeLineIsSentinel(text) ==
  \E k \in 1..Len(SplitLines(text)) : SentinelAlone(SplitLines(text)[k])

EmbeddedSentinel(text) ==
  \E k \in 1..Len(SplitLines(text)) :
    LET line == SplitLines(text)[k]
    IN  (\E j \in 1..Len(line) : line[j] = "S") /\ ~SentinelAlone(line)

(***************************************************************************)
(* Work items (specs).  The body of a spec is a sequence of lines; a line  *)
(* records whether it starts in column 0, which checkbox it carries ("- [ ]"*)
(* open, "- [x]" checked, "- [X]" CHECKED, none) and the text behind it.   *)
(***************************************************************************)
\* the letters of a task text: enough to spell one keyword of each list
\* ('api' and 'ui'), one of them in capitals too, and texts that hit neither
Letters == {"a", "p", "i", "u", "A"}

HIGH_RISK_KEYWORDS ==
  { <<"a", "r", "c", "h", "i", "t", "e", "c", "t", "u", "r", "e">>,
    <<"s", "c", "h", "e", "m", "a">>,
    <<"d", "e", "s", "i", "g", "n">>,
    <<"i", "n", "t", "e", "g", "r", "a", "t", "i", "o", "n">>,
    <<"a", "p", "i">>,
    <<"c", "o", "n", "t", "r", "a", "c", "t">>,
    <<"s", "p", "i", "k", "e">>,
    <<"u", "n", "k", "n", "o", "w", "n">>,
    <<"c", "o", "r", "e">>,
    <<"a", "b", "s", "t", "r", "a", "c", "t", "i", "o", "n">>,
    <<"f", "o", "u", "n", "d", "a", "t", "i", "o", "n">>,
    <<"r", "e", "f", "a", "c", "t", "o", "r">> }

LOW_RISK_KEYWORDS ==
  { <<"p", "o", "l", "i", "s", "h">>,
    <<"f", "i", "x">>,
    <<"c", "l", "e", "a", "n", "u", "p">>,
    <<"s", "t", "y", "l", "e">>,
    <<"t", "y", "p", "o">>,
    <<"d", "o", "c", "s">>,
    <<"u", "i">>,
    <<"b", "u", "t", "t", "o", "n">>,
    <<"t", "w", "e", "a", "k">> }

OpenHigh == [indent |-> FALSE, box |-> "open", text |-> <<"a", "p", "i">>]
OpenLow == [indent |-> FALSE, box |-> "open", text |-> <<"u", "i">>]
OpenNorm == [indent |-> FALSE, box |-> "open", text |-> <<"p">>]
Checked == [indent |-> FALSE, box |-> "checked", text |-> <<"p">>]
CheckedUpper == [indent |-> FALSE, box |-> "CHECKED", text |-> <<"p">>]
NestedHigh == [indent |-> TRUE, box |-> "open", text |-> <<"a", "p", "i">>]
OpenBare == [indent |-> FALSE, box |-> "open", text |-> <<>>]
Prose == [indent |-> FALSE, box |-> "none", text |-> <<"a", "p", "i">>]

\* the lines a body is made of where the metrics are exercised on their own
Lines == {OpenHigh, OpenLow, OpenNorm, Checked, CheckedUpper, NestedHigh, OpenBare, Prose}

\* the bodies a work item takes in the controller specification
Contents == { <<OpenHigh, OpenNorm>>, <<Checked, OpenNorm>> }
NoContent == <<>>

Statuses == {"todo", "in-progress", "done"}

\* order in which readdirSync lists the spec files
DirOrder == <<"a", "b">>

\* frontmatter fields that no controller action writes
SpecPriority(id) == IF id = "a" THEN "none" ELSE "high"
SpecCreated(id) == IF id = "a" THEN 1 ELSE 2

SpecOf(store, id) == [id |-> id, status |-> store[id].status, content |-> store[id].content,
                    priority |-> store[id].priority, created |-> store[id].created]

\* a sort that leaves the array as it is
Unsorted(seq, cmp) == seq

\* Array.prototype.sort / toSorted: a stable sort under the comparator; the
\* element at position k goes behind every element that compares smaller and
\* behind every equal element that stood before it
StableSort(seq, cmp) ==
  LET n == Len(seq)
      rank(k) == 1 + Cardinality({j \in 1..n :
                       \/ cmp[j][k] < 0
                       \/ (cmp[j][k] = 0 /\ j < k)})
  IN  [r \in 1..n |-> seq[CHOOSE k \in 1..n : rank(k) = r]]

Sign(n) == IF n < 0 THEN -1 ELSE IF n > 0 THEN 1 ELSE 0

priorityOrder(p) ==
  CASE p = "high" -> 0 [] p = "medium" -> 1 [] p = "low" -> 2 [] OTHER -> 999

listSpecsCmp(a, b) ==
  IF priorityOrder(a.priority) # priorityOrder(b.priority)
    THEN priorityOrder(a.priority) - priorityOrder(b.priority)
    ELSE a.created - b.created

listSpecs(store) ==
  LET files == [k \in 1..Len(dir) |-> SpecOf(store, dir[k])]
  IN  StableSort(files, [j \in 1..Len(files) |-> [k \in 1..Len(files) |->
                           listSpecsCmp(files[j], files[k])]])

\* the variant that does not look at the status
getSpecsByStatusAny(store, status) == listSpecs(store)

getSpecsByStatus(store, status) ==
  LET Keep(s) == s.status = status IN SelectSeq(listSpecs(store), Keep)

\* /- \[ \]/g and /- \[x\]/gi: neither is anchored, the second ignores case
countSpecTasks(content) ==
  LET unchecked == Cardinality({k \in 1..Len(content) : content[k].box = "open"})
      checked == Cardinality({k \in 1..Len(content) : content[k].box \in {"checked", "CHECKED"}})
  IN  [total |-> unchecked + checked, completed |-> checked]

toLowerCase(text) ==
  [k \in 1..Len(text) |-> CASE text[k] = "A" -> "a" [] text[k] = "P" -> "p"
                             [] text[k] = "I" -> "i" [] text[k] = "U" -> "u"
                             [] OTHER -> text[k]]

includes(text, keyword) ==
  \E k \in 0..(Len(text) - Len(keyword)) :
    \A j \in 1..Len(keyword) : text[k + j] = keyword[j]

\* the variant that tests the low-risk list first
classifyTaskLowFirst(taskText) ==
  LET lowerText == toLowerCase(taskText)
  IN  IF \E keyword \in LOW_RISK_KEYWORDS : includes(lowerText, keyword) THEN "low"
      ELSE IF \E keyword \in HIGH_RISK_KEYWORDS : includes(lowerText, keyword) THEN "high"
      ELSE "normal"

classifyTask(taskText) ==
  LET lowerText == toLowerCase(taskText)
  IN  IF \E keyword \in HIGH_RISK_KEYWORDS : includes(lowerText, keyword) THEN "high"
      ELSE IF \E keyword \in LOW_RISK_KEYWORDS : includes(lowerText, keyword) THEN "low"
      ELSE "normal"

\* /^- \[ \] (.+)$/gm: the checkbox starts the line and text follows it
getUncompletedTasks(content) ==
  LET Keep(l) == ~l.indent /\ l.box = "open" /\ l.text # <<>>
      kept == SelectSeq(content, Keep)
  IN  [k \in 1..Len(kept) |-> kept[k].text]

\* getSpecRiskRatio as a fraction [num, den] with den > 0
getSpecRiskRatio(spec) ==
  LET open == getUncompletedTasks(spec.content)
  IN  IF Len(open) = 0 THEN [num |-> 0, den |-> 1]
      ELSE [num |-> Cardinality({k \in 1..Len(open) : classifyTask(open[k]) = "high"}),
            den |-> Len(open)]

\* the percentage cut off instead of rounded
getSpecProgressTruncated(spec) ==
  LET t == countSpecTasks(spec.content)
  IN  IF t.total = 0 THEN 100
      ELSE (100 * t.completed) \div t.total

\* Math.round(completed / total * 100)
getSpecProgress(spec) ==
  LET t == countSpecTasks(spec.content)
  IN  IF t.total = 0 THEN 100
      ELSE (200 * t.completed + t.total) \div (2 * t.total)

\* the comparator with the priority consulted before the risk ratio
getNextSpecCmpPriorityFirst(a, b) ==
  LET aInProgress == IF a.status = "in-progress" THEN 0 ELSE 1
      bInProgress == IF b.status = "in-progress" THEN 0 ELSE 1
      ar == getSpecRiskRatio(a)
      br == getSpecRiskRatio(b)
  IN  IF aInProgress # bInProgress THEN aInProgress - bInProgress
      ELSE IF priorityOrder(a.priority) # priorityOrder(b.priority)
        THEN priorityOrder(a.priority) - priorityOrder(b.priority)
      ELSE IF ar.num * br.den # br.num * ar.den
        THEN Sign(br.num * ar.den - ar.num * br.den)
      ELSE IF getSpecProgress(a) # getSpecProgress(b)
        THEN getSpecProgress(b) - getSpecProgress(a)
      ELSE a.created - b.created

getNextSpecCmp(a, b) ==
  LET aInProgress == IF a.status = "in-progress" THEN 0 ELSE 1
      bInProgress == IF b.status = "in-progress" THEN 0 ELSE 1
      ar == getSpecRiskRatio(a)
      br == getSpecRiskRatio(b)
  IN  IF aInProgress # bInProgress THEN aInProgress - bInProgress
      ELSE IF ar.num * br.den # br.num * ar.den
        THEN Sign(br.num * ar.den - ar.num * br.den)
      ELSE IF priorityOrder(a.priority) # priorityOrder(b.priority)
        THEN priorityOrder(a.priority) - priorityOrder(b.priority)
      ELSE IF getSpecProgress(a) # getSpecProgress(b)
        THEN getSpecProgress(b) - getSpecProgress(a)
      ELSE a.created - b.created

actionableSpecs(store) ==
  LET Keep(s) == s.status \in {"todo", "in-progress"} IN SelectSeq(listSpecs(store), Keep)

\* getNextSpec: the ids of the result; {} stands for null
getNextSpec(store) ==
  IF actionableSpecs(store) = <<>> THEN {}
  ELSE LET todo == actionableSpecs(store)
       IN  {StableSort(todo, [j \in 1..Len(todo) |-> [k \in 1..Len(todo) |->
                                getNextSpecCmp(todo[j], todo[k])]])[1].id}

\* updateSpecStatus writing todo whatever status is asked for
updateSpecStatusReset(store, id, status) ==
  [store EXCEPT ![id].status = "todo"]

updateSpecStatus(store, id, status) ==
  [store EXCEPT ![id].status = status]

(***************************************************************************)
(* Session store (.sonata/session.json)                                    *)
(***************************************************************************)
NoSession == [exists |-> FALSE, ticketId |-> "-", iteration |-> 0,
              hasPrd |-> FALSE, prdContent |-> NoContent]

loadCurrentSession == session

\* initSession leaving alone a session that is already there
initSessionIfNone(ticketId) ==
  IF session.exists THEN session
  ELSE [exists |-> TRUE, ticketId |-> ticketId, iteration |-> 0,
        hasPrd |-> FALSE, prdContent |-> NoContent]

initSession(ticketId) ==
  [exists |-> TRUE, ticketId |-> ticketId, iteration |-> 0,
   hasPrd |-> FALSE, prdContent |-> NoContent]

\* incrementIteration writing only the new count, without the loaded session
incrementIterationUnmerged(s) ==
  IF ~s.exists THEN s ELSE [NoSession EXCEPT !.exists = TRUE, !.iteration = s.iteration + 1]

incrementIteration(s) ==
  IF ~s.exists THEN s ELSE [s EXCEPT !.iteration = @ + 1]

updateSessionPrd(s, content) ==
  IF ~s.exists THEN s ELSE [s EXCEPT !.hasPrd = TRUE, !.prdContent = content]

clearSession == NoSession

(***************************************************************************)
(* The session store at the level of the file.  A JSON value is null, a    *)
(* number or an object; the fields of an object hold strings, numbers,     *)
(* null, NaN or undefined.                                                 *)
(***************************************************************************)
Str(s) == [t |-> "str", s |-> s]
Num(n) == [t |-> "num", n |-> n]
Null == [t |-> "null"]
NaN == [t |-> "NaN"]
Undefined == [t |-> "undefined"]

Object(fields) == [type |-> "object", fields |-> fields]
JsonNull == [type |-> "null"]
JsonNumber == [type |-> "number"]
Thrown == [type |-> "throw"]
NoFields == [k \in {} |-> Undefined]

\* the file is missing, holds text that JSON.parse rejects, or holds JSON
NoFile == [kind |-> "missing"]
Unparseable == [kind |-> "text"]
Json(value) == [kind |-> "json", value |-> value]

\* session.iteration and the like: a missing property reads as undefined
Get(fields, key) == IF key \in DOMAIN fields THEN fields[key] ELSE Undefined

\* { ...session, ...updates }: a number spreads to nothing
Spread(value) == IF value.type = "object" THEN value.fields ELSE NoFields
Merge(a, b) == [k \in DOMAIN a \cup DOMAIN b |-> IF k \in DOMAIN b THEN b[k] ELSE a[k]]

\* value + 1: undefined + 1 and NaN + 1 are NaN, null + 1 is 1 (no file of
\* the model holds a string for a count)
AddOne(v) ==
  CASE v.t = "num" -> Num(v.n + 1)
    [] v.t = "null" -> Num(1)
    [] OTHER -> NaN

\* JSON.parse(JSON.stringify(fields)): properties that are undefined are
\* left out, NaN is written as null
Stringified(fields) ==
  [k \in {j \in DOMAIN fields : fields[j] # Undefined} |->
     IF fields[k] = NaN THEN Null ELSE fields[k]]

\* !session
Falsy(value) == value.type = "null"

\* loadCurrentSession without the try/catch around the read
loadCurrentSessionUncaught(f) ==
  CASE f.kind = "missing" -> JsonNull
    [] f.kind = "text" -> Thrown
    [] OTHER -> f.value

\* loadCurrentSession(cwd) for the file f
loadCurrentSessionFrom(f) ==
  CASE f.kind = "missing" -> JsonNull
    [] f.kind = "text" -> JsonNull
    [] OTHER -> f.value

\* initSession keeping what the session on disk holds
initSessionMerged(f, data, now) ==
  LET current == Merge(Spread(loadCurrentSessionFrom(f)),
                       Merge(data, ("startedAt" :> Num(now)) @@ ("iteration" :> Num(0))))
  IN  [file |-> Json(Object(Stringified(current))), ret |-> Object(current)]

\* initSession(cwd, data) at the time now: the file it leaves and what it returns
initSessionFile(f, data, now) ==
  LET current == Merge(data, ("startedAt" :> Num(now)) @@ ("iteration" :> Num(0)))
  IN  [file |-> Json(Object(Stringified(current))), ret |-> Object(current)]

\* updateSession(cwd, updates)
updateSessionFile(f, updates) ==
  LET current == loadCurrentSessionFrom(f)
  IN  IF Falsy(current) THEN [file |-> f, ret |-> JsonNull]
      ELSE LET updated == Merge(Spread(current), updates)
           IN  [file |-> Json(Object(Stringified(updated))), ret |-> Object(updated)]

\* incrementIteration returning the count it read
incrementIterationStale(f) ==
  LET current == loadCurrentSessionFrom(f)
  IN  IF Falsy(current) THEN [file |-> f, ret |-> Num(0)]
      ELSE LET newIteration == AddOne(Get(Spread(current), "iteration"))
           IN  [file |-> updateSessionFile(f, "iteration" :> newIteration).file,
                ret |-> Get(Spread(current), "iteration")]

\* incrementIteration(cwd)
incrementIterationFile(f) ==
  LET current == loadCurrentSessionFrom(f)
  IN  IF Falsy(current) THEN [file |-> f, ret |-> Num(0)]
      ELSE LET newIteration == AddOne(Get(Spread(current), "iteration"))
           IN  [file |-> updateSessionFile(f, "iteration" :> newIteration).file,
                ret |-> newIteration]

\* clearSession that takes the file to be there
clearSessionUnchecked(f) ==
  IF f.kind # "missing" THEN [file |-> NoFile, ret |-> Undefined]
  ELSE [file |-> f, ret |-> Thrown]

\* clearSession(cwd)
clearSessionFile(f) ==
  IF f.kind # "missing" THEN [file |-> NoFile, ret |-> Undefined]
  ELSE [file |-> f, ret |-> Undefined]

\* countPrdSteps(prdContent): the same two patterns as countSpecTasks
countPrdSteps(prdContent) ==
  LET unchecked == Cardinality({k \in 1..Len(prdContent) : prdContent[k].box = "open"})
      checked == Cardinality({k \in 1..Len(prdContent) :
                                prdContent[k].box \in {"checked", "CHECKED"}})
  IN  [total |-> unchecked + checked, completed |-> checked]

\* updateSessionPrd(cwd, prdData) at the time now
updateSessionPrdFile(f, prdData, now) ==
  updateSessionFile(f, "prdPageId" :> Str(prdData.prdPageId)
                         @@ "prdContent" :> Str(prdData.prdContent)
                         @@ "prdFetchedAt" :> Num(now)
                         @@ "totalSteps" :> Num(prdData.totalSteps)
                         @@ "completedSteps" :> Num(0))

(***************************************************************************)
(* Progress log (progress.txt): the label written by initProgress, the     *)
(* work items that feedback entries were appended for, the terminal marker. *)
(***************************************************************************)
NoProgress == [exists |-> FALSE, label |-> "-", entries |-> {}, complete |-> FALSE]

progressExists(p) == p.exists

initProgress(p, label) ==
  IF p.exists THEN p
  ELSE [exists |-> TRUE, label |-> label, entries |-> {}, complete |-> FALSE]

appendHumanFeedback(p, item) ==
  [p EXCEPT !.exists = TRUE, !.entries = @ \cup {item}]

markProgressComplete(p) == [p EXCEPT !.exists = TRUE, !.complete = TRUE]

deleteProgress == NoProgress

(***************************************************************************)
(* Agent invocation.  kind is how the invocation ends: "idle" (the session *)
(* went idle), "timeout" (the abort fired and the event loop was left) or  *)
(* "throw" (an exception inside the try block); text is the output         *)
(* accumulated until then.                                                 *)
(***************************************************************************)
AgentOutputs == { <<"x">>, <<"x", "S">>, <<"S">>, <<"H">>, <<"H", "n", "S">> }
AgentEnds == {"idle", "timeout", "throw"}

\* the ways an invocation can end together with its output: a session that goes
\* idle with any of the outputs, one cut off by the timeout before or after
\* the sentinel line, one that throws
AgentRuns ==
  {ar \in AgentEnds \X AgentOutputs :
     \/ ar[1] = "idle"
     \/ ar[1] = "timeout" /\ ar[2] \in {<<"x">>, <<"S">>}
     \/ ar[1] = "throw" /\ ar[2] = <<"x">>}

runOpenCode(kind, text) ==
  IF kind = "throw"
    THEN [success |-> FALSE, isComplete |-> FALSE, awaitingHuman |-> FALSE]
    ELSE [success |-> TRUE, isComplete |-> COMPLETE_SIGNAL_REGEX(text),
          awaitingHuman |-> DetectCheckpoint(text)]

\* the order in which the loops examine a result
ResultBranchCompleteFirst(result) ==
  IF ~result.success THEN "error"
  ELSE IF result.isComplete THEN "complete"
  ELSE IF result.awaitingHuman THEN "checkpoint"
  ELSE "neither"

ResultBranch(result) ==
  IF ~result.success THEN "error"
  ELSE IF result.awaitingHuman THEN "checkpoint"
  ELSE IF result.isComplete THEN "complete"
  ELSE "neither"

\* runLocalCommand examines success and isComplete only
RunResultBranch(result) ==
  IF ~result.success THEN "error"
  ELSE IF result.isComplete THEN "complete"
  ELSE "neither"

remainingIterationsWhole(iterations, totalIterationsUsed) == iterations

remainingIterations(iterations, totalIterationsUsed) == iterations - totalIterationsUsed

(***************************************************************************)
(* Controller state                                                        *)
(***************************************************************************)
NoSel == [id |-> "-", status |-> "-", content |-> NoContent]

Snapshot(store, id) == [id |-> id, status |-> store[id].status, content |-> store[id].content]

getSpec(id) == Snapshot(specs, id)

InitLoc == [iterations |-> 0, hitl |-> FALSE, yes |-> FALSE, direct |-> FALSE,
            sel |-> NoSel, used |-> 0, i |-> 0, remaining |-> 0,
            prdContent |-> NoContent]

\* what is left of the locals once the command has returned: the configured
\* maximum, the reported total and the work item last in hand
Returns(l) ==
  [InitLoc EXCEPT !.iterations = l.iterations, !.direct = l.direct,
                  !.used = l.used, !.sel = [NoSel EXCEPT !.id = l.sel.id]]

\* observations about the running command:
\*   reason        what the command reports when it ends
\*   errorLogged   'opencode failed' was logged
\*   pausedLogged  'Loop paused by user' was logged
\*   nonCkpt       agent invocations whose result was not a checkpoint
\*   ckpt          some round of this command ended at a checkpoint
\*   completed     some round of this command completed a work item
\*   last          the last thing that happened to the work item
\*   item          the work item of the last agent invocation
\*   ended         how the last agent invocation ended, until the next step
\*   lastComplete  isComplete of the last result, until the next step
\*   lastAwaiting  awaitingHuman of the last result, until the next step
\*   fresh         the prompt of the last invocation held the source's content
\*   before        the session's iteration count when the current round began
InitRun == [reason |-> "-", errorLogged |-> FALSE, pausedLogged |-> FALSE,
            nonCkpt |-> 0, ckpt |-> FALSE, completed |-> FALSE,
            last |-> "none", item |-> "-", ended |-> "-",
            lastComplete |-> FALSE, lastAwaiting |-> FALSE, fresh |-> TRUE,
            before |-> 0]

\* the controller instances that may run in one working directory, and what
\* each holds before it starts: its position, its work item, the file as its
\* incrementIteration and its updateSession read it, the rounds it has made
Instances == {1, 2}

InitInst == [i \in Instances |-> [pc |-> "start", item |-> "-", first |-> NoFile,
                                   second |-> NoFile, rounds |-> 0, last |-> Undefined]]

\* runOpenCode before it is called.  Of the invocation: pc its position,
\* attempt the port attempts made, instance the local variable (0 is null),
\* timer the timeout, aborted the abort signal, partText and output the text
\* gathered, result what it returned.  Of the module: active is
\* activeInstance (0 is null).  Of the world: open the servers started and
\* not closed, prompt and sub the two requests, parts the text parts of the
\* agent's final message, sent how much of each part the agent has reported,
\* stream the events on the subscription, missed the kinds of events emitted
\* with no subscription.
NoResult == [success |-> FALSE, isComplete |-> FALSE, how |-> "-"]

InitOc == [pc |-> "idle", attempt |-> 0, instance |-> 0, active |-> 0, open |-> {},
           timer |-> "none", aborted |-> FALSE, prompt |-> "no", sub |-> "no",
           parts |-> <<>>, sent |-> <<>>, idle |-> FALSE, erred |-> FALSE, foreign |-> 0,
           stream |-> <<>>, missed |-> {}, partText |-> <<>>, output |-> <<>>,
           result |-> NoResult, killed |-> FALSE]

Init ==
  /\ specs = [id \in Items |-> [status |-> "todo", content |-> <<OpenHigh, OpenNorm>>,
                                priority |-> SpecPriority(id), created |-> SpecCreated(id)]]
  /\ session = NoSession
  /\ progress = NoProgress
  /\ cmd = "none"
  /\ pc = "idle"
  /\ loc = InitLoc
  /\ run = InitRun
  /\ runs = 0
  /\ out = <<>>
  /\ detected = "unknown"
  /\ dir = DirOrder
  /\ picked = <<>>
  /\ arg = <<>>
  /\ ret = "unknown"
  /\ file = NoFile
  /\ calls = <<>>
  /\ inst = InitInst
  /\ oc = InitOc

CanStart == pc = "idle" /\ runs < MaxRuns

\* the command returns or the process exits
Finish(reason) == [run EXCEPT !.reason = reason]

\* the prompt is built from content and the agent is invoked for item id
Invoked(r, id, content) ==
  [r EXCEPT !.last = "invoked", !.item = id, !.ended = "-",
            !.lastComplete = FALSE, !.lastAwaiting = FALSE,
            !.fresh = (content = specs[id].content)]

\* the result of an invocation that ended as kind is being processed
Returned(r, kind, result, branch) ==
  [r EXCEPT !.last = branch, !.ended = kind, !.lastComplete = result.isComplete,
            !.lastAwaiting = result.awaitingHuman, !.fresh = TRUE,
            !.nonCkpt = IF branch = "checkpoint" THEN @ ELSE @ + 1,
            !.ckpt = @ \/ branch = "checkpoint",
            !.completed = @ \/ branch = "complete"]

Settled(r) == [r EXCEPT !.ended = "-", !.lastComplete = FALSE, !.lastAwaiting = FALSE]

\* a round of the for loop begins
RoundBegins(r) == [r EXCEPT !.before = session.iteration]

(***************************************************************************)
(* Local loop: runLocalLoopCommand and runSpecLoop                         *)
(***************************************************************************)
SeqIds(seq) == {seq[k].id : k \in 1..Len(seq)}

\* runLocalLoopCommand up to the call of runSpecLoop.  pick is "auto" (--auto),
\* "cancel" (the selection is cancelled or the AFK confirmation declined) or
\* the id the user selects.
StartLocalLoop(n, hitl, pick) ==
  /\ CanStart
  /\ LET availableSpecs == getSpecsByStatus(specs, "in-progress") \o getSpecsByStatus(specs, "todo")
         r0 == InitRun
     IN  /\ cmd' = "loop_local"
         /\ runs' = runs + 1
         /\ IF availableSpecs = <<>>
              THEN /\ pick = "auto" /\ n = 1 /\ hitl
                   /\ pc' = "done"
                   /\ loc' = InitLoc
                   /\ run' = [r0 EXCEPT !.reason = "no_work"]
              ELSE \/ /\ pick = "cancel" /\ n = 1 /\ hitl
                      /\ pc' = "done"
                      /\ loc' = InitLoc
                      /\ run' = [r0 EXCEPT !.reason = "cancelled_at_start"]
                   \/ /\ pick = "auto" \/ pick \in SeqIds(availableSpecs)
                      /\ LET id == IF pick = "auto"
                                     THEN CHOOSE x \in getNextSpec(specs) : TRUE
                                     ELSE pick
                         IN  loc' = [InitLoc EXCEPT !.iterations = n, !.hitl = hitl,
                                                    !.sel = getSpec(id)]
                      /\ pc' = "outer"
                      /\ run' = r0
  /\ UNCHANGED <<specs, session, progress, aux>>

\* top of the while loop of runSpecLoop: branch, session, status, progress
SpecLoopOuter(branchOk) ==
  /\ cmd = "loop_local" /\ pc = "outer"
  /\ IF loc.used < loc.iterations
       THEN IF ~branchOk
              THEN \* getCurrentBranch / createBranch rejects: the exception leaves runSpecLoop
                   /\ pc' = "done"
                   /\ run' = Finish("crashed")
                   /\ UNCHANGED <<specs, session, progress>>
                   /\ loc' = Returns(loc)
              ELSE LET store == IF loc.sel.status = "todo"
                                  THEN updateSpecStatus(specs, loc.sel.id, "in-progress")
                                  ELSE specs
                   IN  /\ branchOk
                       /\ session' = initSession(loc.sel.id)
                       /\ specs' = store
                       /\ progress' = IF ~progressExists(progress)
                                        THEN initProgress(progress, loc.sel.id)
                                        ELSE progress
                       /\ loc' = [loc EXCEPT
                                    !.sel = IF loc.sel.status = "todo"
                                              THEN Snapshot(store, loc.sel.id) ELSE @,
                                    !.remaining = remainingIterations(loc.iterations, loc.used),
                                    !.i = 1]
                       /\ run' = [Settled(run) EXCEPT !.last = "started"]
                       /\ pc' = "inner"
       ELSE /\ branchOk
            /\ pc' = "done"
            /\ run' = Finish("max_iterations")
            /\ UNCHANGED <<specs, session, progress>>
            /\ loc' = Returns(loc)
  /\ UNCHANGED <<cmd, runs, aux>>

\* head of the for loop of runSpecLoop, up to the HITL prompt or the invocation
SpecLoopIter ==
  /\ cmd = "loop_local" /\ pc = "inner"
  /\ IF loc.i > loc.remaining
       THEN \* the for loop ends without completion: break, max_iterations
            /\ pc' = "done"
            /\ run' = Finish("max_iterations")
            /\ UNCHANGED session
            /\ loc' = Returns(loc)
       ELSE LET used == loc.used + 1
                fresh == getSpec(loc.sel.id)
            IN  /\ loc' = [loc EXCEPT !.sel = fresh, !.used = used]
                /\ IF loc.hitl /\ (used > 1 \/ loc.i > 1)
                     THEN /\ pc' = "confirm"
                          /\ run' = Settled(RoundBegins(run))
                          /\ UNCHANGED session
                     ELSE /\ pc' = "agent"
                          /\ session' = incrementIteration(session)
                          /\ run' = Invoked(RoundBegins(run), fresh.id, fresh.content)
  /\ UNCHANGED <<specs, progress, cmd, runs, aux>>

\* answer to 'Continue to next iteration?'
SpecLoopConfirm(continueLoop) ==
  /\ cmd = "loop_local" /\ pc = "confirm"
  /\ IF continueLoop
       THEN /\ pc' = "agent"
            /\ session' = incrementIteration(session)
            /\ run' = Invoked(run, loc.sel.id, loc.sel.content)
            /\ UNCHANGED loc
       ELSE /\ pc' = "done"
            /\ run' = [run EXCEPT !.reason = "user_cancelled", !.pausedLogged = TRUE,
                                  !.last = "declined"]
            /\ loc' = Returns(loc)
            /\ UNCHANGED session
  /\ UNCHANGED <<specs, progress, cmd, runs, aux>>

\* runOpenCodeCli returns and the result is processed
SpecLoopAgentReturns(kind, text, commitOk, prOk) ==
  /\ cmd = "loop_local" /\ pc = "agent"
  /\ LET result == runOpenCode(kind, text)
         branch == ResultBranch(result)
         r1 == Returned(run, kind, result, branch)
     IN  CASE branch = "error" ->
                /\ commitOk /\ prOk
                /\ pc' = "done"
                /\ run' = [r1 EXCEPT !.reason = "error", !.errorLogged = TRUE]
                /\ UNCHANGED <<specs, session, progress>>
                /\ loc' = Returns(loc)
           [] branch = "checkpoint" ->
                /\ commitOk /\ prOk
                /\ pc' = "feedback"
                /\ run' = r1
                /\ UNCHANGED <<specs, session, progress, loc>>
           [] branch = "complete" ->
                LET store == updateSpecStatus(specs, loc.sel.id, "done")
                    r2 == r1
                IN  /\ specs' = store
                    /\ IF ~commitOk
                         THEN \* stageAll / commit rejects: the exception leaves runSpecLoop
                              /\ prOk
                              /\ progress' = markProgressComplete(progress)
                              /\ pc' = "done"
                              /\ run' = [r2 EXCEPT !.reason = "crashed"]
                              /\ UNCHANGED session
                              /\ loc' = Returns(loc)
                         ELSE /\ commitOk
                              /\ session' = clearSession
                              /\ progress' = deleteProgress
                              /\ LET nextSpec == getNextSpec(store)
                                 IN  IF nextSpec = {}
                                       THEN /\ pc' = "done"
                                            /\ run' = [r2 EXCEPT !.reason = "all_specs_complete"]
                                            /\ loc' = Returns(loc)
                                       ELSE /\ pc' = "outer"
                                            /\ run' = r2
                                            /\ loc' = [loc EXCEPT !.sel =
                                                 Snapshot(store, CHOOSE x \in nextSpec : TRUE)]
           [] OTHER ->
                /\ commitOk /\ prOk
                /\ pc' = "inner"
                /\ loc' = [loc EXCEPT !.i = @ + 1]
                /\ run' = r1
                /\ UNCHANGED <<specs, session, progress>>
  /\ UNCHANGED <<cmd, runs, aux>>

\* answer to the checkpoint's feedback prompt
SpecLoopFeedback(cancelled) ==
  /\ cmd = "loop_local" /\ pc = "feedback"
  /\ IF cancelled
       THEN /\ pc' = "done"
            /\ run' = [run EXCEPT !.reason = "user_cancelled", !.pausedLogged = TRUE,
                                  !.last = "cancel"]
            /\ UNCHANGED progress
            /\ loc' = Returns(loc)
       ELSE /\ progress' = appendHumanFeedback(progress, loc.sel.id)
            /\ loc' = [loc EXCEPT !.used = @ - 1, !.i = @ + 1]
            /\ pc' = "inner"
            /\ run' = Settled(run)
  /\ UNCHANGED <<specs, session, cmd, runs, aux>>

(***************************************************************************)
(* Notion loop: loopCommand.  The board's tickets are the work items, a    *)
(* ticket's PRD is its content.                                            *)
(***************************************************************************)
\* fetchPrdContentViaMcp: the PRD currently stored, or null (ok = FALSE)
fetchPrdContentViaMcp(id, ok) == IF ok THEN {specs[id].content} ELSE {}

\* updateTicketStatusViaMcp: the update may fail, which only returns false
updateTicketStatusViaMcp(store, id, status, ok) ==
  IF ok THEN [store EXCEPT ![id].status = status] ELSE store

\* loopCommand up to the for loop.  ticket is the --ticket flag ("-" when
\* absent), fetch1/fetch2 whether the PRD fetches succeed, pick the ticket the
\* user selects or "cancel", statusOk whether the status update succeeds,
\* confirm the answer to 'Start the Ralph loop?'.
StartNotionLoop(n, hitl, ticket, fetch1, fetch2, pick, statusOk, confirm) ==
  /\ CanStart
  /\ cmd' = "loop_notion"
  /\ runs' = runs + 1
  /\ LET s0 == loadCurrentSession
         direct == ticket # "-" /\ (~s0.exists \/ s0.ticketId # ticket)
         s1 == IF direct /\ fetchPrdContentViaMcp(ticket, fetch1) # {}
                 THEN updateSessionPrd(initSession(ticket), specs[ticket].content)
                 ELSE s0
         readyTickets == getSpecsByStatus(specs, "in-progress") \o getSpecsByStatus(specs, "todo")
         selecting == ~(direct /\ ~fetch1) /\ ~s1.exists /\ readyTickets # <<>>
         \* how the set-up ends ("run": the loop is entered), with the session
         \* and the board it leaves
         setup ==
           IF direct /\ fetchPrdContentViaMcp(ticket, fetch1) = {}
             THEN [why |-> "no_prd", sess |-> s0, store |-> specs]
           ELSE IF s1.exists
             THEN \* continue the session: fetch the PRD fresh
                  IF fetchPrdContentViaMcp(s1.ticketId, fetch2) = {}
                    THEN [why |-> "no_prd", sess |-> s1, store |-> specs]
                    ELSE [why |-> "run", store |-> specs,
                          sess |-> updateSessionPrd(s1, specs[s1.ticketId].content)]
           ELSE IF readyTickets = <<>>
             THEN [why |-> "no_work", sess |-> s1, store |-> specs]
           ELSE IF pick = "cancel"
             THEN [why |-> "cancelled_at_start", sess |-> s1, store |-> specs]
           ELSE IF fetchPrdContentViaMcp(pick, fetch2) = {}
             THEN [why |-> "no_prd", sess |-> s1, store |-> specs]
           ELSE [why |-> "run",
                 sess |-> updateSessionPrd(initSession(pick), specs[pick].content),
                 store |-> updateTicketStatusViaMcp(specs, pick, "in-progress", statusOk)]
         declined == setup.why = "run" /\ ~hitl /\ ~confirm
     IN  \* each environment choice is named only where the code consults it
         /\ (~direct => fetch1)
         /\ IF selecting THEN pick \in SeqIds(readyTickets) \cup {"cancel"} ELSE pick = "cancel"
         /\ (~(s1.exists \/ (selecting /\ pick # "cancel")) \/ (direct /\ ~fetch1) => fetch2)
         /\ (~(setup.why = "run" /\ selecting) => statusOk)
         /\ (~(setup.why = "run" /\ ~hitl) => confirm)
         /\ (setup.why # "run" => hitl)
         /\ (setup.why # "run" \/ declined => n = 1)
         /\ session' = setup.sess
         /\ specs' = setup.store
         /\ progress' = IF setup.why = "run" /\ ~progressExists(progress)
                          THEN initProgress(progress, setup.sess.ticketId) ELSE progress
         /\ IF setup.why = "run" /\ ~declined
              THEN /\ pc' = "inner"
                   /\ loc' = [InitLoc EXCEPT !.iterations = n, !.hitl = hitl,
                                !.direct = direct,
                                !.sel = Snapshot(setup.store, setup.sess.ticketId),
                                !.prdContent = setup.sess.prdContent, !.i = 1]
                   /\ run' = [InitRun EXCEPT !.last = "started"]
              ELSE /\ pc' = "done"
                   /\ loc' = [InitLoc EXCEPT !.direct = direct]
                   /\ run' = [InitRun EXCEPT !.reason =
                                IF declined THEN "cancelled_at_start" ELSE setup.why]
  /\ UNCHANGED aux

\* what the code after the for loop reports, however the loop was left
NotionAfterLoop(r) == [r EXCEPT !.reason = "max_iterations"]

\* head of the for loop of loopCommand
NotionLoopIter ==
  /\ cmd = "loop_notion" /\ pc = "inner"
  /\ IF loc.i > loc.iterations
       THEN /\ pc' = "done"
            /\ run' = NotionAfterLoop(run)
            /\ UNCHANGED session
            /\ loc' = Returns(loc)
       ELSE LET s == loadCurrentSession
                prdContent == IF s.exists /\ s.hasPrd THEN s.prdContent ELSE loc.prdContent
            IN  /\ loc' = [loc EXCEPT !.prdContent = prdContent]
                /\ IF loc.hitl /\ loc.i > 1
                     THEN /\ pc' = "confirm"
                          /\ run' = Settled(RoundBegins(run))
                          /\ UNCHANGED session
                     ELSE /\ pc' = "agent"
                          /\ session' = incrementIteration(session)
                          /\ run' = Invoked(RoundBegins(run), loc.sel.id, prdContent)
  /\ UNCHANGED <<specs, progress, cmd, runs, aux>>

NotionLoopConfirm(continueLoop) ==
  /\ cmd = "loop_notion" /\ pc = "confirm"
  /\ IF continueLoop
       THEN /\ pc' = "agent"
            /\ session' = incrementIteration(session)
            /\ run' = Invoked(run, loc.sel.id, loc.prdContent)
            /\ UNCHANGED loc
       ELSE /\ pc' = "done"
            /\ run' = NotionAfterLoop([run EXCEPT !.pausedLogged = TRUE, !.last = "declined"])
            /\ loc' = Returns(loc)
            /\ UNCHANGED session
  /\ UNCHANGED <<specs, progress, cmd, runs, aux>>

NotionLoopAgentReturns(kind, text, statusOk) ==
  /\ cmd = "loop_notion" /\ pc = "agent"
  /\ LET result == runOpenCode(kind, text)
         branch == ResultBranch(result)
         r1 == Returned(run, kind, result, branch)
     IN  CASE branch = "error" ->
                /\ statusOk
                /\ pc' = "done"
                /\ run' = NotionAfterLoop([r1 EXCEPT !.errorLogged = TRUE])
                /\ UNCHANGED <<specs, session, progress>>
                /\ loc' = Returns(loc)
           [] branch = "checkpoint" ->
                /\ statusOk
                /\ pc' = "feedback"
                /\ run' = r1
                /\ UNCHANGED <<specs, session, progress, loc>>
           [] branch = "complete" ->
                /\ specs' = updateTicketStatusViaMcp(specs, session.ticketId, "done", statusOk)
                /\ session' = clearSession
                /\ progress' = deleteProgress
                /\ pc' = "done"
                /\ run' = [r1 EXCEPT !.reason = "completed"]
                /\ loc' = Returns(loc)
           [] OTHER ->
                /\ statusOk
                /\ pc' = "inner"
                /\ loc' = [loc EXCEPT !.i = @ + 1]
                /\ run' = r1
                /\ UNCHANGED <<specs, session, progress>>
  /\ UNCHANGED <<cmd, runs, aux>>

NotionLoopFeedback(cancelled) ==
  /\ cmd = "loop_notion" /\ pc = "feedback"
  /\ IF cancelled
       THEN /\ pc' = "done"
            /\ run' = NotionAfterLoop([run EXCEPT !.pausedLogged = TRUE, !.last = "cancel"])
            /\ UNCHANGED progress
            /\ loc' = Returns(loc)
       ELSE /\ progress' = appendHumanFeedback(progress, loc.sel.id)
            /\ loc' = [loc EXCEPT !.i = @ + 1]
            /\ pc' = "inner"
            /\ run' = Settled(run)
  /\ UNCHANGED <<specs, session, cmd, runs, aux>>

(***************************************************************************)
(* Local single run: runLocalCommand                                       *)
(***************************************************************************)
\* runLocalCommand up to the confirmation prompt or the invocation
StartLocalRun(yes, pick, branchOk) ==
  /\ CanStart
  /\ cmd' = "run_local"
  /\ runs' = runs + 1
  /\ LET r0 == InitRun
         availableSpecs == getSpecsByStatus(specs, "in-progress") \o getSpecsByStatus(specs, "todo")
         exit(why) ==
           /\ pc' = "done"
           /\ loc' = InitLoc
           /\ run' = [r0 EXCEPT !.reason = why]
           /\ UNCHANGED <<specs, session, progress>>
     IN  IF availableSpecs = <<>>
           THEN pick = "cancel" /\ branchOk /\ yes /\ exit("no_work")
           ELSE IF pick \notin SeqIds(availableSpecs)
             THEN pick = "cancel" /\ branchOk /\ yes /\ exit("cancelled_at_start")
             ELSE IF ~branchOk
               THEN yes /\ exit("crashed")
               ELSE LET selectedSpec == getSpec(pick)
                        r1 == [r0 EXCEPT !.last = "started"]
                    IN  /\ branchOk
                        /\ session' = incrementIteration(initSession(pick))
                        /\ specs' = IF selectedSpec.status = "todo"
                                      THEN updateSpecStatus(specs, pick, "in-progress")
                                      ELSE specs
                        /\ progress' = IF ~progressExists(progress)
                                         THEN initProgress(progress, pick) ELSE progress
                        /\ loc' = [InitLoc EXCEPT !.iterations = 1, !.yes = yes,
                                                  !.sel = selectedSpec]
                        /\ IF yes
                             THEN /\ pc' = "agent"
                                  /\ run' = Invoked(r1, pick, selectedSpec.content)
                             ELSE /\ pc' = "confirm"
                                  /\ run' = r1
  /\ UNCHANGED aux

\* answer to 'Ready to implement one task?'
LocalRunConfirm(proceed) ==
  /\ cmd = "run_local" /\ pc = "confirm"
  /\ IF proceed
       THEN /\ pc' = "agent"
            /\ run' = Invoked(run, loc.sel.id, loc.sel.content)
            /\ UNCHANGED loc
       ELSE /\ pc' = "done"
            /\ run' = [run EXCEPT !.reason = "cancelled", !.last = "declined"]
            /\ loc' = Returns(loc)
  /\ UNCHANGED <<specs, session, progress, cmd, runs, aux>>

\* vcs: "ok", "throw" (getCurrentBranch or getCommitsSinceBase rejects) or
\* "cancel" (the 'Create PR' prompt is cancelled)
LocalRunAgentReturns(kind, text, vcs) ==
  /\ cmd = "run_local" /\ pc = "agent"
  /\ pc' = "done"
  /\ LET result == runOpenCode(kind, text)
         branch == RunResultBranch(result)
         r1 == Returned(run, kind, result, branch)
     IN  CASE branch = "error" ->
                /\ vcs = "ok"
                /\ run' = [r1 EXCEPT !.reason = "error", !.errorLogged = TRUE]
                /\ UNCHANGED <<specs, session, progress>>
           [] branch = "complete" ->
                /\ specs' = updateSpecStatus(specs, loc.sel.id, "done")
                /\ (vcs = "cancel" => ~loc.yes)
                /\ IF vcs = "ok"
                     THEN /\ session' = clearSession
                          /\ progress' = deleteProgress
                          /\ run' = [r1 EXCEPT !.reason = "completed"]
                     ELSE /\ progress' = markProgressComplete(progress)
                          /\ run' = [r1 EXCEPT
                                       !.reason = IF vcs = "throw" THEN "crashed" ELSE "cancelled"]
                          /\ UNCHANGED session
           [] OTHER ->
                /\ vcs = "ok"
                /\ run' = [r1 EXCEPT !.reason = "iteration_complete"]
                /\ UNCHANGED <<specs, session, progress>>
  /\ loc' = Returns(loc)
  /\ UNCHANGED <<cmd, runs, aux>>

(***************************************************************************)
(* Environment                                                             *)
(***************************************************************************)
\* the agent rewrites the body of the work item in hand while its invocation
\* is in flight
ExternalEdit(id, content) ==
  /\ pc = "agent"
  /\ id = run.item
  /\ specs[id].content # content
  /\ specs' = [specs EXCEPT ![id].content = content]
  /\ UNCHANGED <<session, progress, cmd, pc, loc, run, runs, aux>>

\* the command has returned or its process has exited: its locals are gone
Exit ==
  /\ pc = "done"
  /\ pc' = "idle"
  /\ cmd' = "none"
  /\ loc' = InitLoc
  /\ run' = InitRun
  /\ UNCHANGED <<specs, session, progress, runs, aux>>

\* sonata clean, confirmed
cleanCommand ==
  /\ pc = "idle"
  /\ progressExists(progress)
  /\ progress' = deleteProgress
  /\ UNCHANGED <<specs, session, cmd, pc, loc, run, runs, aux>>

Next ==
  \/ \E n \in 1..MaxIterations, hitl \in BOOLEAN, pick \in Items \cup {"auto", "cancel"} :
        StartLocalLoop(n, hitl, pick)
  \/ \E branchOk \in BOOLEAN : SpecLoopOuter(branchOk)
  \/ SpecLoopIter
  \/ \E continueLoop \in BOOLEAN : SpecLoopConfirm(continueLoop)
  \/ \E ar \in AgentRuns, commitOk \in BOOLEAN, prOk \in BOOLEAN :
        SpecLoopAgentReturns(ar[1], ar[2], commitOk, prOk)
  \/ \E cancelled \in BOOLEAN : SpecLoopFeedback(cancelled)
  \/ \E n \in 1..MaxIterations, hitl \in BOOLEAN, ticket \in Items \cup {"-"},
        fetch1 \in BOOLEAN, fetch2 \in BOOLEAN, pick \in Items \cup {"cancel"},
        statusOk \in BOOLEAN, confirm \in BOOLEAN :
        StartNotionLoop(n, hitl, ticket, fetch1, fetch2, pick, statusOk, confirm)
  \/ NotionLoopIter
  \/ \E continueLoop \in BOOLEAN : NotionLoopConfirm(continueLoop)
  \/ \E ar \in AgentRuns, statusOk \in BOOLEAN :
        NotionLoopAgentReturns(ar[1], ar[2], statusOk)
  \/ \E cancelled \in BOOLEAN : NotionLoopFeedback(cancelled)
  \/ \E yes \in BOOLEAN, pick \in Items \cup {"cancel"}, branchOk \in BOOLEAN :
        StartLocalRun(yes, pick, branchOk)
  \/ \E proceed \in BOOLEAN : LocalRunConfirm(proceed)
  \/ \E ar \in AgentRuns, vcs \in {"ok", "throw", "cancel"} :
        LocalRunAgentReturns(ar[1], ar[2], vcs)
  \/ \E id \in Items, content \in Contents : ExternalEdit(id, content)
  \/ cleanCommand
  \/ Exit

Spec == Init /\ [][Next]_vars

TypeOK ==
  /\ specs \in [Items -> [status : Statuses, content : Contents,
                           priority : {"none", "high"}, created : {1, 2}]]
  /\ session.exists \in BOOLEAN
  /\ progress.exists \in BOOLEAN
  /\ cmd \in {"none", "loop_local", "loop_notion", "run_local"}
  /\ pc \in {"idle", "outer", "inner", "confirm", "agent", "feedback", "done"}
  /\ runs \in 0..MaxRuns

(***************************************************************************)
(* Completion detector on its own: every output up to MaxLen is tested.    *)
(***************************************************************************)
InitDetect ==
  /\ specs = [id \in Items |-> [status |-> "todo", content |-> <<OpenHigh, OpenNorm>>,
                                priority |-> SpecPriority(id), created |-> SpecCreated(id)]]
  /\ session = NoSession
  /\ progress = NoProgress
  /\ cmd = "none"
  /\ pc = "idle"
  /\ loc = InitLoc
  /\ run = InitRun
  /\ runs = 0
  /\ out \in TextsUpTo(MaxLen)
  /\ detected = "unknown"
  /\ dir = DirOrder
  /\ picked = <<>>
  /\ arg = <<>>
  /\ ret = "unknown"
  /\ file = NoFile
  /\ calls = <<>>
  /\ inst = InitInst
  /\ oc = InitOc

\* isComplete: COMPLETE_SIGNAL_REGEX.test(output)
Detect ==
  /\ detected = "unknown"
  /\ detected' = IF COMPLETE_SIGNAL_REGEX(out) THEN "yes" ELSE "no"
  /\ UNCHANGED <<specs, session, progress, cmd, pc, loc, run, runs, out, dir, picked, arg, ret,
                  file, calls, inst, oc>>

NextDetect == Detect

SpecDetect == InitDetect /\ [][NextDetect]_vars

(***************************************************************************)
(* Properties                                                              *)
(***************************************************************************)
InLoop == cmd \in {"loop_local", "loop_notion"}

\* C1: a checkpoint round consumes no budget: a loop that stops because its
\* iteration budget is used up has made as many non-checkpoint agent rounds
\* as the configured maximum.
C1_CheckpointKeepsBudget ==
  (InLoop /\ pc = "done" /\ run.reason = "max_iterations"
     /\ ~run.errorLogged /\ ~run.pausedLogged)
    => run.nonCkpt = loc.iterations

\* C2: right after a round whose output is detected complete the work item
\* is done and neither a session nor a progress log is present.
C2_CompletionClears ==
  run.last = "complete"
    => /\ specs[run.item].status = "done"
       /\ ~session.exists
       /\ ~progress.exists

\* C3: the step in which an agent invocation errors or times out ends the
\* command with the failure logged, leaves every work item's status alone and
\* leaves a session behind.
C3_FailureHalts ==
  [][(run.ended = "-" /\ run'.ended \in {"throw", "timeout"})
       => /\ pc' = "done"
          /\ run'.errorLogged
          /\ specs' = specs
          /\ session'.exists]_vars

C5_SharedBudget ==
  InLoop
    => /\ run.nonCkpt <= loc.iterations
       /\ (pc = "inner" /\ run.last = "started" /\ run.completed
             => run.nonCkpt < loc.iterations)

C5_Witness ==
  /\ cmd = "loop_local" /\ pc = "done" /\ run.reason = "max_iterations"
  /\ run.completed /\ run.last = "neither" /\ run.nonCkpt = loc.iterations

\* C6: an output is detected complete exactly when one of its lines holds the
\* sentinel and nothing else but surrounding whitespace.
C6_SentinelOnOwnLine ==
  detected # "unknown" => ((detected = "yes") <=> SomeLineIsSentinel(out))

C6_Witness ==
  detected = "yes" /\ EmbeddedSentinel(out)

C8_ResumesSession ==
  [][(session.exists /\ cmd' # "none" /\ pc' \notin {"idle", "done"}
        /\ ~loc'.direct /\ ~run'.completed)
       => /\ session'.exists
          /\ session'.ticketId = session.ticketId
          /\ session'.iteration >= session.iteration
          /\ loc'.sel.id = session.ticketId]_vars

\* C9: the prompt of every agent invocation holds the content the source
\* holds at that moment.
C9_FreshPayload ==
  run.last = "invoked" => run.fresh

\* C10: while the session stays with one work item its iteration count never
\* decreases.
C10_IterationMonotonic ==
  [][(session.exists /\ session'.exists /\ session'.ticketId = session.ticketId)
       => session'.iteration >= session.iteration]_vars

(***************************************************************************)
(* C11: the session's iteration count is 0 at creation and rises by        *)
(* exactly 1 per completed iteration; a round that ended at a checkpoint,  *)
(* a failed invocation and a confirmation declined before the invocation   *)
(* leave it where it was when the round began.                             *)
(***************************************************************************)
C11_CountsCompletedIterations ==
  session.exists =>
    /\ (run.last \in {"checkpoint", "error", "declined"} => session.iteration = run.before)
    /\ (run.last = "neither" /\ run.ended # "-" => session.iteration = run.before + 1)

(***************************************************************************)
(* C12: when the user declines the confirmation between two iterations of  *)
(* a loop, the loop ends and reports that the user cancelled it, not that  *)
(* the iteration limit was reached; the agent is not invoked again and the *)
(* session is still there.                                                 *)
(***************************************************************************)
C12_DeclineReportedAsCancel ==
  InLoop /\ run.last = "declined" =>
    /\ pc = "done"
    /\ run.reason = "user_cancelled"
    /\ session.exists

\* a command leaves the prompt of the shell
Starts == pc = "idle" /\ pc' # "idle"

NothingToDo == ~session.exists /\ actionableSpecs(specs) = <<>>

NoWorkAvailable ==
  /\ pc' = "done"
  /\ run'.reason = "no_work"
  /\ session' = session
  /\ run'.last = "none"
  /\ ~run'.errorLogged

(***************************************************************************)
(* C13: a command started while there is no session and the source holds   *)
(* no work item that is todo or in-progress ends with NoWorkAvailable as a *)
(* normal outcome: no session is created, the agent is not invoked and no  *)
(* error is reported.                                                      *)
(***************************************************************************)
C13_NoWorkAvailable ==
  [][Starts /\ NothingToDo => NoWorkAvailable]_vars

\* C13 as amended: the same, for a command that names no ticket itself
C13_NoWorkAvailableUnnamed ==
  [][Starts /\ NothingToDo /\ ~loc'.direct => NoWorkAvailable]_vars

C13_Witness ==
  /\ pc = "done" /\ run.reason = "no_work" /\ ~loc.direct
  /\ ~session.exists /\ actionableSpecs(specs) = <<>>

(***************************************************************************)
(* C14: a loop that was entered stops only because all tasks are complete, *)
(* the maximum of iterations is reached, an error occurred or the user     *)
(* cancelled, and the reason it reports is the one that stopped it: an     *)
(* error exactly after a failed invocation, a cancellation exactly after   *)
(* the user declined or cancelled a prompt, completion only after a        *)
(* completed work item.                                                    *)
(***************************************************************************)
C14_ReportsActualStop ==
  InLoop /\ pc = "done" /\ run.last # "none" =>
    /\ run.reason \in {"all_specs_complete", "completed", "max_iterations",
                       "error", "user_cancelled"}
    /\ (run.reason = "error" <=> run.last = "error")
    /\ (run.reason = "user_cancelled" <=> run.last \in {"cancel", "declined"})
    /\ (run.reason \in {"all_specs_complete", "completed"} => run.last = "complete")

(***************************************************************************)
(* Ranking on its own: getNextSpec over every store of two spec files and  *)
(* every order in which the directory lists them.                          *)
(***************************************************************************)
MaxPicks == 2

\* the bodies of the ranked specs: risk ratios 0, 1/2, 1 and progress 0, 50, 100
RankContents ==
  { <<OpenNorm>>, <<OpenHigh>>, <<OpenHigh, OpenNorm>>,
    <<Checked, OpenNorm>>, <<Checked, OpenHigh>>, <<Checked>> }

Priorities == {"high", "medium", "low", "none"}
CreatedDates == {1, 2}

\* the orders in which readdirSync can list the files of the store
Orders(ids) ==
  {o \in [1..Cardinality(ids) -> ids] : \A id \in ids : \E k \in DOMAIN o : o[k] = id}

\* no command is running and none has run
AtRest ==
  /\ session = NoSession
  /\ progress = NoProgress
  /\ cmd = "none"
  /\ pc = "idle"
  /\ loc = InitLoc
  /\ run = InitRun
  /\ runs = 0
  /\ out = <<>>
  /\ detected = "unknown"
  /\ file = NoFile
  /\ calls = <<>>
  /\ inst = InitInst
  /\ oc = InitOc

ctl == <<session, progress, cmd, pc, loc, run, runs, out, detected, file, calls, inst, oc>>

InitRank ==
  /\ AtRest
  /\ specs \in [Items -> [status : Statuses, content : RankContents,
                           priority : Priorities, created : CreatedDates]]
  /\ dir = DirOrder
  /\ picked = <<>>
  /\ arg = <<>>
  /\ ret = "unknown"

\* getNextSpec(cwd) is called; the call is recorded with the listing it saw
Select ==
  /\ Len(picked) < MaxPicks
  /\ picked' = Append(picked, [order |-> dir, spec |-> getNextSpec(specs)])
  /\ UNCHANGED <<specs, ctl, dir, arg, ret>>

\* the directory lists the same files in another order
Relist(order) ==
  /\ order \in Orders(DOMAIN specs)
  /\ order # dir
  /\ dir' = order
  /\ UNCHANGED <<specs, ctl, picked, arg, ret>>

NextRank ==
  \/ Select
  \/ \E order \in Orders(Items) : Relist(order)

SpecRank == InitRank /\ [][NextRank]_vars

\* the ranking criteria of the item id, as the specification declares them
Actionable(id) == specs[id].status \in {"todo", "in-progress"}
StatusRank(id) == IF specs[id].status = "in-progress" THEN 1 ELSE 2
RiskOf(id) == getSpecRiskRatio(SpecOf(specs, id))
PriorityRank(id) ==
  CASE specs[id].priority = "high" -> 1 [] specs[id].priority = "medium" -> 2
    [] specs[id].priority = "low" -> 3 [] specs[id].priority = "none" -> 4
ProgressOf(id) == getSpecProgress(SpecOf(specs, id))
CreatedOf(id) == specs[id].created

RiskHigher(x, y) == RiskOf(x).num * RiskOf(y).den > RiskOf(y).num * RiskOf(x).den
RiskSame(x, y) == RiskOf(x).num * RiskOf(y).den = RiskOf(y).num * RiskOf(x).den

\* x comes strictly before y: in-progress before todo, then the higher risk
\* ratio, then the higher priority, then the higher progress, then the
\* earlier creation date
Before(x, y) ==
  \/ StatusRank(x) < StatusRank(y)
  \/ /\ StatusRank(x) = StatusRank(y)
     /\ \/ RiskHigher(x, y)
        \/ /\ RiskSame(x, y)
           /\ \/ PriorityRank(x) < PriorityRank(y)
              \/ /\ PriorityRank(x) = PriorityRank(y)
                 /\ \/ ProgressOf(x) > ProgressOf(y)
                    \/ /\ ProgressOf(x) = ProgressOf(y)
                       /\ CreatedOf(x) < CreatedOf(y)

(***************************************************************************)
(* C15: selectNext returns none exactly when no item is todo or            *)
(* in-progress; otherwise it returns an item that is todo or in-progress   *)
(* and that no other such item precedes in the lexicographic order         *)
(* (in-progress first, risk ratio descending, priority high < medium < low *)
(* < absent, progress descending, creation date ascending).                *)
(***************************************************************************)
C15_SelectsMinimal ==
  \A k \in 1..Len(picked) :
    /\ (picked[k].spec = {} <=> \A id \in DOMAIN specs : ~Actionable(id))
    /\ \A id \in picked[k].spec :
         /\ Actionable(id)
         /\ \A other \in DOMAIN specs : Actionable(other) => ~Before(other, id)

\* both items are todo with the same risk ratio, and the priority decides
C15_Witness ==
  /\ Len(picked) > 0
  /\ picked[1].spec = {"b"}
  /\ specs["a"].status = "todo" /\ specs["b"].status = "todo"
  /\ RiskSame("a", "b") /\ RiskOf("a").num > 0
  /\ PriorityRank("b") < PriorityRank("a")
  /\ ProgressOf("a") > ProgressOf("b")

(***************************************************************************)
(* C16: selectNext is deterministic and independent of the order of its    *)
(* input: whatever the order in which the directory lists the same files,  *)
(* it returns the same item.                                               *)
(***************************************************************************)
C16_OrderIndependent ==
  \A j, k \in 1..Len(picked) : picked[j].spec = picked[k].spec

(***************************************************************************)
(* Draining the board: three todo specs; getNextSpec is called and the     *)
(* spec it returns is marked done, until it returns null.                  *)
(***************************************************************************)
DrainItems == {"a", "b", "c"}

\* bodies with the risk ratios 0, 1/3, 1/2 and 1 at progress 0, and one with
\* the risk ratio 1 at progress 50
DrainContents ==
  { <<OpenNorm>>, <<OpenHigh, OpenNorm, OpenNorm>>, <<OpenHigh, OpenNorm>>,
    <<OpenHigh>>, <<Checked, OpenHigh>> }

InitDrain ==
  /\ AtRest
  /\ specs \in [DrainItems -> [status : {"todo"}, content : DrainContents,
                                priority : {"high", "none"}, created : CreatedDates]]
  /\ dir = <<"a", "b", "c">>
  /\ picked = <<>>
  /\ arg = <<>>
  /\ ret = "unknown"

\* getNextSpec(cwd), then updateSpecStatus(cwd, id, 'done') for its result
SelectAndMarkDone ==
  /\ Len(picked) <= Cardinality(DOMAIN specs)
  /\ \A k \in {Len(picked)} \ {0} : picked[k].spec # {}
  /\ LET next == getNextSpec(specs)
     IN  /\ picked' = Append(picked, [order |-> dir, spec |-> next])
         /\ specs' = IF next = {} THEN specs
                     ELSE updateSpecStatus(specs, CHOOSE id \in next : TRUE, "done")
  /\ UNCHANGED <<ctl, dir, arg, ret>>

NextDrain == SelectAndMarkDone

SpecDrain == InitDrain /\ [][NextDrain]_vars

\* the boards the drain is judged on: the risk ratios differ pairwise, the
\* priority, the progress and the creation date are the same
DistinctRisks == \A x, y \in DOMAIN specs : x # y => ~RiskSame(x, y)
EqualOtherwise ==
  \A x, y \in DOMAIN specs :
    /\ PriorityRank(x) = PriorityRank(y)
    /\ ProgressOf(x) = ProgressOf(y)
    /\ CreatedOf(x) = CreatedOf(y)

(***************************************************************************)
(* C17: from todo items with pairwise distinct risk ratios and the same    *)
(* priority, progress and creation date, calling selectNext and marking    *)
(* its result done, again and again, returns every item exactly once, in   *)
(* strictly descending order of risk, and then returns none.               *)
(***************************************************************************)
C17_DrainsByRisk ==
  DistinctRisks /\ EqualOtherwise =>
    /\ \A k \in 1..Len(picked) :
         /\ (picked[k].spec = {} <=> k = Cardinality(DOMAIN specs) + 1)
         /\ \A id \in picked[k].spec : specs[id].status = "done"
    /\ \A j, k \in 1..Len(picked) :
         j < k => \A x \in picked[j].spec, y \in picked[k].spec : RiskHigher(x, y)
    /\ Cardinality({id \in DOMAIN specs : specs[id].status = "done"})
         = Cardinality({k \in 1..Len(picked) : picked[k].spec # {}})

\* all three items were returned and the fourth call returned none, and the
\* directory lists them in another order than their risk
C17_Witness ==
  /\ DistinctRisks /\ EqualOtherwise
  /\ Len(picked) = Cardinality(DOMAIN specs) + 1
  /\ picked[Len(picked)].spec = {}
  /\ picked[1].spec = {"c"} /\ picked[2].spec = {"a"}

(***************************************************************************)
(* Task classifier on its own: every task text up to MaxText letters.      *)
(***************************************************************************)
MaxText == 5

RECURSIVE TaskTexts(_)
TaskTexts(k) ==
  IF k = 0 THEN {<<>>}
  ELSE LET shorter == TaskTexts(k - 1)
       IN  shorter \cup {Append(t, c) : t \in {u \in shorter : Len(u) = k - 1}, c \in Letters}

InitClassify ==
  /\ AtRest
  /\ specs = [id \in Items |-> [status |-> "todo", content |-> <<OpenHigh, OpenNorm>>,
                                priority |-> SpecPriority(id), created |-> SpecCreated(id)]]
  /\ dir = DirOrder
  /\ picked = <<>>
  /\ arg \in TaskTexts(MaxText)
  /\ ret = "unknown"

\* classifyTask(taskText)
Classify ==
  /\ ret = "unknown"
  /\ ret' = classifyTask(arg)
  /\ UNCHANGED <<specs, ctl, dir, picked, arg>>

NextClassify == Classify

SpecClassify == InitClassify /\ [][NextClassify]_vars

\* some stretch of the text spells a keyword of the list, whatever the case
\* of its letters
ContainsKeyword(text, keywords) ==
  \E first \in 1..Len(text), last \in 1..Len(text) :
    toLowerCase(SubSeq(text, first, last)) \in keywords

(***************************************************************************)
(* C18: classifyTask returns high for every text that contains a high-risk *)
(* keyword (as a substring, in any case), also when it contains a low-risk *)
(* keyword as well; low for a text that contains a low-risk keyword and no *)
(* high-risk keyword; normal for a text that contains neither.             *)
(***************************************************************************)
C18_HighTakesPrecedence ==
  ret # "unknown" =>
    LET high == ContainsKeyword(arg, HIGH_RISK_KEYWORDS)
        low == ContainsKeyword(arg, LOW_RISK_KEYWORDS)
    IN  /\ (high => ret = "high")
        /\ (low /\ ~high => ret = "low")
        /\ (~low /\ ~high => ret = "normal")

\* 'uiApi': both keywords, the high-risk one partly in capitals
C18_Witness ==
  /\ arg = <<"u", "i", "A", "p", "i">>
  /\ ret = "high"

(***************************************************************************)
(* Metrics on their own: every body of up to MaxLines lines.               *)
(***************************************************************************)
MaxLines == 3

RECURSIVE Bodies(_)
Bodies(k) ==
  IF k = 0 THEN {<<>>}
  ELSE LET shorter == Bodies(k - 1)
       IN  shorter \cup {Append(b, l) : b \in {u \in shorter : Len(u) = k - 1}, l \in Lines}

\* the result register before the metrics are computed
NoMetrics == [riskRatio |-> [num |-> 0, den |-> 0], progress |-> -1]

InitMetrics ==
  /\ AtRest
  /\ specs = [id \in Items |-> [status |-> "todo", content |-> <<OpenHigh, OpenNorm>>,
                                priority |-> SpecPriority(id), created |-> SpecCreated(id)]]
  /\ dir = DirOrder
  /\ picked = <<>>
  /\ arg \in Bodies(MaxLines)
  /\ ret = NoMetrics

\* getSpecRiskRatio(spec) and getSpecProgress(spec) for a spec with the body arg
Measure ==
  /\ ret = NoMetrics
  /\ LET spec == [id |-> "a", status |-> "todo", content |-> arg,
                  priority |-> "none", created |-> 1]
     IN  ret' = [riskRatio |-> getSpecRiskRatio(spec), progress |-> getSpecProgress(spec)]
  /\ UNCHANGED <<specs, ctl, dir, picked, arg>>

NextMetrics == Measure

SpecMetrics == InitMetrics /\ [][NextMetrics]_vars

\* the checklist lines of a body: the lines that carry a checkbox
OpenChecklistLines(content) == {k \in 1..Len(content) : content[k].box = "open"}
CheckedChecklistLines(content) ==
  {k \in 1..Len(content) : content[k].box \in {"checked", "CHECKED"}}

(***************************************************************************)
(* C19: the risk ratio of a work item lies in [0,1] and is the fraction of *)
(* its open checklist lines that classifyTask classifies high; it is 0     *)
(* when the item has no open checklist line, whatever its task count.      *)
(***************************************************************************)
C19_RiskRatioIsHighFraction ==
  ret # NoMetrics =>
    LET open == OpenChecklistLines(arg)
        high == {k \in open : classifyTask(arg[k].text) = "high"}
        ratio == ret.riskRatio
    IN  /\ ratio.den > 0 /\ 0 <= ratio.num /\ ratio.num <= ratio.den
        /\ (open = {} => ratio.num = 0)
        /\ (open # {} => ratio.num * Cardinality(open) = Cardinality(high) * ratio.den)

(***************************************************************************)
(* C20: the progress of a work item is an integer in [0,100], the nearest  *)
(* integer to completed tasks / total tasks * 100, and 100 when the item   *)
(* has no task.                                                            *)
(***************************************************************************)
C20_ProgressIsRoundedPercentage ==
  ret # NoMetrics =>
    LET completed == Cardinality(CheckedChecklistLines(arg))
        total == completed + Cardinality(OpenChecklistLines(arg))
        distance == ret.progress * total - 100 * completed
    IN  /\ ret.progress \in 0..100
        /\ (total = 0 => ret.progress = 100)
        /\ (total > 0 => 2 * distance <= total /\ -2 * distance <= total)

\* two of three tasks are checked, one of them with a capital X: 66.67 is
\* rounded up to 67
C20_Witness ==
  /\ arg = <<Checked, CheckedUpper, OpenNorm>>
  /\ ret # NoMetrics
  /\ ret.progress = 67

(***************************************************************************)
(* Session store on its own: up to MaxCalls calls of initSession,          *)
(* loadCurrentSession, updateSession, incrementIteration and clearSession, *)
(* starting from every kind of file.                                       *)
(***************************************************************************)
MaxCalls == 3

\* the data initSession is called with
SessionData ==
  { ("ticketId" :> Str("T1")) @@ ("ticketTitle" :> Str("one")) @@
    ("ticketUrl" :> Str("u1")) @@ ("branch" :> Str("main")),
    ("ticketId" :> Str("T2")) @@ ("ticketTitle" :> Str("two")) @@
    ("ticketUrl" :> Str("u2")) @@ ("branch" :> Str("feature")) }

\* a session left by an earlier run, with a cached PRD
OldSession ==
  ("ticketId" :> Str("T0")) @@ ("ticketTitle" :> Str("zero")) @@
  ("ticketUrl" :> Str("u0")) @@ ("branch" :> Str("old")) @@
  ("startedAt" :> Num(0)) @@ ("iteration" :> Num(2)) @@ ("prdContent" :> Str("prd"))

\* what the file may hold when the store is first called: nothing, text
\* that is not JSON, JSON that is not a session (null, a number, {}, an
\* object with a ticketId only), a session
StoreFiles ==
  { NoFile, Unparseable, Json(JsonNull), Json(JsonNumber), Json(Object(NoFields)),
    Json(Object("ticketId" :> Str("T0"))), Json(Object(OldSession)) }

\* the partial sessions updateSession is called with
SessionUpdates == { "branch" :> Str("moved"), "prdContent" :> Str("new") }

InitStore ==
  /\ specs = [id \in Items |-> [status |-> "todo", content |-> <<OpenHigh, OpenNorm>>,
                                priority |-> SpecPriority(id), created |-> SpecCreated(id)]]
  /\ session = NoSession
  /\ progress = NoProgress
  /\ cmd = "none"
  /\ pc = "idle"
  /\ loc = InitLoc
  /\ run = InitRun
  /\ runs = 0
  /\ out = <<>>
  /\ detected = "unknown"
  /\ dir = DirOrder
  /\ picked = <<>>
  /\ arg = <<>>
  /\ ret = "unknown"
  /\ file \in StoreFiles
  /\ calls = <<>>
  /\ inst = InitInst
  /\ oc = InitOc

\* the call op(input) is made at the time at, leaves the file result.file
\* and returns result.ret
Called(op, input, at, result) ==
  /\ Len(calls) < MaxCalls
  /\ file' = result.file
  /\ calls' = Append(calls, [op |-> op, input |-> input, at |-> at, before |-> file,
                             after |-> result.file, ret |-> result.ret])
  /\ UNCHANGED <<specs, session, progress, cmd, pc, loc, run, runs, out, detected,
                  dir, picked, arg, ret, inst, oc>>

\* the clock: a tick per call, later than the start of every old session
Now == Len(calls) + 1

CallInit(data) == Called("init", data, Now, initSessionFile(file, data, Now))

CallLoad ==
  Called("load", NoFields, Now, [file |-> file, ret |-> loadCurrentSessionFrom(file)])

CallUpdate(updates) == Called("update", updates, Now, updateSessionFile(file, updates))

CallIncrement == Called("increment", NoFields, Now, incrementIterationFile(file))

CallClear == Called("clear", NoFields, Now, clearSessionFile(file))

\* the PRD contents the session is refreshed with
PrdContents == {<<OpenNorm>>, <<Checked, CheckedUpper, OpenNorm, Prose>>}

\* the refresh of the cached PRD as loopCommand does it: count the steps of
\* the fetched content, then updateSessionPrd
CallUpdateSessionPrd(content) ==
  Called("prd", content, Now,
         updateSessionPrdFile(file, [prdPageId |-> "page", prdContent |-> content,
                                     totalSteps |-> countPrdSteps(content).total], Now))

NextStore ==
  \/ \E data \in SessionData : CallInit(data)
  \/ CallLoad
  \/ \E updates \in SessionUpdates : CallUpdate(updates)
  \/ CallIncrement
  \/ CallClear
  \/ \E content \in PrdContents : CallUpdateSessionPrd(content)

SpecStore == InitStore /\ [][NextStore]_vars

\* the call k is followed directly by a call of op
FollowedBy(k, op) == k + 1 <= Len(calls) /\ calls[k + 1].op = op

(***************************************************************************)
(* C21: after initSession(d), whatever the session file held before,       *)
(* loadCurrentSession returns a session whose supplied fields are those of *)
(* d and whose other fields are a fresh start time and the iteration 0;    *)
(* nothing of the previous session is left.                                *)
(***************************************************************************)
C21_InitOverwrites ==
  \A k \in 1..Len(calls) :
    calls[k].op = "init" /\ FollowedBy(k, "load") =>
      LET loaded == calls[k + 1].ret
          d == calls[k].input
      IN  /\ loaded.type = "object"
          /\ DOMAIN loaded.fields = DOMAIN d \cup {"startedAt", "iteration"}
          /\ \A key \in DOMAIN d : loaded.fields[key] = d[key]
          /\ loaded.fields["iteration"] = Num(0)
          /\ loaded.fields["startedAt"] = Num(calls[k].at)

\* initSession over a session with a cached PRD and two iterations, then load
C21_Witness ==
  /\ Len(calls) >= 2
  /\ calls[1].op = "init" /\ calls[1].before = Json(Object(OldSession))
  /\ calls[2].op = "load" /\ calls[2].ret.type = "object"

(***************************************************************************)
(* C22: loadCurrentSession returns no session, and does not throw, when    *)
(* the session file is missing or its content cannot be parsed.            *)
(***************************************************************************)
C22_LoadNeverThrows ==
  \A k \in 1..Len(calls) :
    calls[k].op = "load" /\ calls[k].before \in {NoFile, Unparseable} =>
      calls[k].ret = JsonNull /\ calls[k].after = calls[k].before

\* both cases have been loaded: a missing file and one that is not JSON
C22_Witness ==
  /\ Len(calls) >= 3
  /\ calls[1].op = "load" /\ calls[1].before = Unparseable /\ calls[1].ret = JsonNull
  /\ calls[2].op = "clear"
  /\ calls[3].op = "load" /\ calls[3].before = NoFile /\ calls[3].ret = JsonNull

\* the fields every session record has (interface Session, the optional ones left out)
SessionFields == {"ticketId", "ticketTitle", "ticketUrl", "branch", "startedAt", "iteration"}

\* the file holds a well-formed session record
WellFormed(f) ==
  /\ f.kind = "json"
  /\ f.value.type = "object"
  /\ SessionFields \subseteq DOMAIN f.value.fields

(***************************************************************************)
(* C23: a session file that does not hold a well-formed session record,    *)
(* be it text that cannot be parsed or parsed data without the session     *)
(* fields, is treated as a missing one: loadCurrentSession returns no      *)
(* session, incrementIteration returns 0 and updateSession returns no      *)
(* session.                                                                *)
(***************************************************************************)
C23_CorruptedIsMissing ==
  \A k \in 1..Len(calls) :
    calls[k].before # NoFile /\ ~WellFormed(calls[k].before) =>
      /\ calls[k].op = "load" => calls[k].ret = JsonNull
      /\ calls[k].op = "increment" => calls[k].ret = Num(0)
      /\ calls[k].op = "update" => calls[k].ret = JsonNull

(***************************************************************************)
(* C24: with no session file, updateSession returns no session,            *)
(* incrementIteration returns 0 and clearSession does nothing; none of     *)
(* them creates the file, and a clearSession after a clearSession leaves   *)
(* what the first one left.                                                *)
(***************************************************************************)
C24_NoSessionNoEffect ==
  \A k \in 1..Len(calls) :
    /\ calls[k].before = NoFile /\ calls[k].op \in {"update", "increment", "clear"} =>
         /\ calls[k].after = NoFile
         /\ calls[k].op = "update" => calls[k].ret = JsonNull
         /\ calls[k].op = "increment" => calls[k].ret = Num(0)
         /\ calls[k].op = "clear" => calls[k].ret = Undefined
    /\ calls[k].op = "clear" /\ FollowedBy(k, "clear") =>
         /\ calls[k + 1].after = calls[k].after
         /\ calls[k + 1].ret = Undefined

\* the three calls have been made with no session file, the last a second clear
C24_Witness ==
  /\ Len(calls) >= 3
  /\ calls[1].before = Json(Object(OldSession)) /\ calls[1].op = "clear"
  /\ calls[2].before = NoFile /\ calls[2].op = "clear"
  /\ calls[3].before = NoFile /\ calls[3].op \in {"update", "increment"}

\* the calls after the call k up to the call m are all of incrementIteration or
\* loadCurrentSession
OnlyIncrementsBetween(k, m) ==
  \A i \in (k + 1)..m : calls[i].op \in {"increment", "load"}

\* the number of incrementIteration calls after the call k up to the call m
IncrementsBetween(k, m) ==
  Cardinality({i \in (k + 1)..m : calls[i].op = "increment"})

(***************************************************************************)
(* C25: after initSession and with nothing else writing the session, the   *)
(* j-th incrementIteration returns j, and a loadCurrentSession after it    *)
(* shows the iteration j and every other field as initSession wrote it.    *)
(***************************************************************************)
C25_IncrementCounts ==
  \A k \in 1..Len(calls) : \A m \in (k + 1)..Len(calls) :
    calls[k].op = "init" /\ OnlyIncrementsBetween(k, m) =>
      LET j == IncrementsBetween(k, m)
      IN  /\ calls[m].op = "increment" => calls[m].ret = Num(j)
          /\ calls[m].op = "load" =>
               calls[m].ret = Object(Merge(calls[k].ret.fields, "iteration" :> Num(j)))

\* initSession, then incrementIteration twice: 1 then 2
C25_Witness ==
  /\ Len(calls) >= 3
  /\ calls[1].op = "init"
  /\ calls[2].op = "increment" /\ calls[2].ret = Num(1)
  /\ calls[3].op = "increment" /\ calls[3].ret = Num(2)

\* the place of a status on the way todo -> in-progress -> done
StatusOrder(status) ==
  CASE status = "todo" -> 0
    [] status = "in-progress" -> 1
    [] status = "done" -> 2

(***************************************************************************)
(* C26: no step of a controller moves a work item back: the status of      *)
(* every item stays where it is or moves on along todo, in-progress, done. *)
(***************************************************************************)
C26_StatusOnlyForward ==
  [][\A id \in Items : StatusOrder(specs'[id].status) >= StatusOrder(specs[id].status)]_vars

\* the local loop has taken an item from todo through in-progress to done and
\* another item is in progress
C26_Witness ==
  /\ cmd = "loop_local"
  /\ \E id \in Items : specs[id].status = "done"
  /\ \E id \in Items : specs[id].status = "in-progress"

(***************************************************************************)
(* Spec files on disk (specs/*.md).  A text is a sequence of symbols: "D"  *)
(* a double quote, "Q" a single quote, "w" a blank, "n" a line terminator, *)
(* any other symbol a run of ordinary characters ("todo", "high", "t").    *)
(* A file is a record: kind "spec" with the header lines between the ---   *)
(* fences (key |-> the text after the colon) and the text after the        *)
(* closing fence; kind "plain" for a text without the fences; kind         *)
(* "unreadable" for a path readFileSync fails on.  A folder is the         *)
(* sequence of its files in readdir order.                                 *)
(***************************************************************************)
RECURSIVE trimStart(_)
trimStart(text) ==
  IF text # <<>> /\ IsWs(text[1]) THEN trimStart(Tail(text)) ELSE text

RECURSIVE trimEnd(_)
trimEnd(text) ==
  IF text # <<>> /\ IsWs(text[Len(text)])
    THEN trimEnd(SubSeq(text, 1, Len(text) - 1))
    ELSE text

\* String.prototype.trim
trim(text) == trimEnd(trimStart(text))

\* parseFrontmatter: 'Remove quotes if present'
Unquoted(value) ==
  IF /\ value # <<>>
     /\ \/ value[1] = "D" /\ value[Len(value)] = "D"
        \/ value[1] = "Q" /\ value[Len(value)] = "Q"
    THEN SubSeq(value, 2, Len(value) - 1)
    ELSE value

\* parseFrontmatter(content).frontmatter
parseFrontmatter(f) ==
  IF f.kind = "spec"
    THEN [key \in DOMAIN f.header |-> Unquoted(trim(f.header[key]))]
    ELSE [key \in {} |-> <<>>]

StatusTexts == {<<"todo">>, <<"in-progress">>, <<"done">>}
PriorityTexts == {<<"high">>, <<"medium">>, <<"low">>}

\* the schema without the enumeration of the statuses
SpecFrontmatterSchemaAnyStatus(frontmatter) ==
  /\ {"id", "title", "status", "created", "updated"} \subseteq DOMAIN frontmatter
  /\ "priority" \in DOMAIN frontmatter => frontmatter["priority"] \in PriorityTexts

\* SpecFrontmatterSchema.safeParse(frontmatter).success
SpecFrontmatterSchema(frontmatter) ==
  /\ {"id", "title", "status", "created", "updated"} \subseteq DOMAIN frontmatter
  /\ frontmatter["status"] \in StatusTexts
  /\ "priority" \in DOMAIN frontmatter => frontmatter["priority"] \in PriorityTexts

\* parseSpecFile(filepath): the set of its result, empty for null; an absent
\* priority is the empty text
parseSpecFile(f) ==
  IF f.kind = "unreadable" THEN {}
  ELSE LET frontmatter == parseFrontmatter(f)
       IN  IF ~SpecFrontmatterSchema(frontmatter) THEN {}
           ELSE {[id |-> frontmatter["id"],
                  title |-> frontmatter["title"],
                  status |-> frontmatter["status"],
                  priority |-> IF "priority" \in DOMAIN frontmatter
                                 THEN frontmatter["priority"] ELSE <<>>,
                  created |-> frontmatter["created"],
                  updated |-> frontmatter["updated"],
                  content |-> trim(f.body),
                  filepath |-> f.name]}

\* new Date(text).getTime(): the set of the time, empty for NaN
getTime(text) ==
  IF Len(text) = 1 /\ text[1] \in {"1", "2", "9"}
    THEN {("1" :> 1 @@ "2" :> 2 @@ "9" :> 9)[text[1]]}
    ELSE {}

\* the comparator of listSpecs on parsed files; a NaN orders nothing
listSpecFilesCmp(a, b) ==
  LET aPriority == IF a.priority # <<>> THEN priorityOrder(a.priority[1]) ELSE 999
      bPriority == IF b.priority # <<>> THEN priorityOrder(b.priority[1]) ELSE 999
  IN  IF aPriority # bPriority THEN aPriority - bPriority
      ELSE IF getTime(a.created) = {} \/ getTime(b.created) = {} THEN 0
      ELSE (CHOOSE t \in getTime(a.created) : TRUE) - (CHOOSE t \in getTime(b.created) : TRUE)

RECURSIVE parsedSpecs(_)
parsedSpecs(folder) ==
  IF folder = <<>> THEN <<>>
  ELSE LET spec == parseSpecFile(folder[1])
       IN  (IF spec = {} THEN <<>> ELSE <<CHOOSE x \in spec : TRUE>>) \o parsedSpecs(Tail(folder))

\* listSpecs(cwd) on the folder
listSpecFiles(folder) ==
  LET found == parsedSpecs(folder)
  IN  StableSort(found, [j \in 1..Len(found) |-> [k \in 1..Len(found) |->
                           listSpecFilesCmp(found[j], found[k])]])

\* getSpec(cwd, id): the set of its result
getSpecFile(folder, id) ==
  LET found == listSpecFiles(folder)
      hits == {k \in 1..Len(found) : found[k].id = id}
  IN  IF hits = {} THEN {}
      ELSE {found[CHOOSE k \in hits : \A j \in hits : k <= j]}

\* serializeFrontmatter(frontmatter) as the header it writes
serializeFrontmatter(frontmatter) ==
  [key \in {"id", "title", "status", "created", "updated"}
            \cup (IF frontmatter.priority # <<>> THEN {"priority"} ELSE {})
     |-> <<"w">> \o frontmatter[key]]

\* fs.writeFileSync(spec.filepath, `${serializeFrontmatter(frontmatter)}\n\n${content}`)
writeSpecFile(folder, filepath, frontmatter, content) ==
  [k \in 1..Len(folder) |->
     IF folder[k].name = filepath
       THEN [name |-> filepath, kind |-> "spec",
             header |-> serializeFrontmatter(frontmatter),
             body |-> <<"n", "n">> \o content]
       ELSE folder[k]]

\* the one spec getSpec found
Found(found) == CHOOSE x \in found : TRUE

\* the file of spec written anew from its fields and content, and the spec
\* the update returns
Rewritten(folder, spec, content) ==
  [folder |-> writeSpecFile(folder, spec.filepath, spec, content),
   ret |-> {[spec EXCEPT !.content = content]}]

\* updateSpecStatus from the answer of getSpec on
updateSpecStatusOf(folder, found, status, now) ==
  IF found = {} THEN [folder |-> folder, ret |-> {}]
  ELSE Rewritten(folder, [Found(found) EXCEPT !.status = status, !.updated = now],
                 Found(found).content)

\* updateSpecStatus(cwd, id, status) at the time now
updateSpecStatusFile(folder, id, status, now) ==
  updateSpecStatusOf(folder, getSpecFile(folder, id), status, now)

\* updateSpecContent from the answer of getSpec on
updateSpecContentOf(folder, found, newContent, now) ==
  IF found = {} THEN [folder |-> folder, ret |-> {}]
  ELSE Rewritten(folder, [Found(found) EXCEPT !.updated = now], newContent)

\* updateSpecContent(cwd, id, newContent) at the time now
updateSpecContentFile(folder, id, newContent, now) ==
  updateSpecContentOf(folder, getSpecFile(folder, id), newContent, now)

\* the files the updates are tried on: a.md with a plain, a quoted, a doubly
\* quoted and a padded title, b.md well formed, malformed in each way the
\* parser can meet, or absent
TitleLines == {<<"w", "t">>, <<"w", "D", "t", "D">>, <<"w", "D", "Q", "t", "Q", "D">>,
               <<"w", "D", "w", "t", "D">>}
CreatedLines == {<<"w", "1">>, <<"w", "D", "2", "D">>}
BodyTexts == {<<>>, <<"n", "x", "n">>}

FilesA ==
  {[name |-> "a.md", kind |-> "spec",
    header |-> ("id" :> <<"w", "a">> @@ "title" :> title @@ "status" :> <<"w", status>>
                @@ "created" :> created @@ "updated" :> <<"w", "1">>) @@ priority,
    body |-> content] :
     title \in TitleLines, status \in {"todo"}, created \in CreatedLines,
     priority \in {[key \in {} |-> <<>>]}, content \in BodyTexts}

WellFormedB ==
  [name |-> "b.md", kind |-> "spec",
   header |-> ("id" :> <<"w", "b">> @@ "title" :> <<"w", "t">> @@ "status" :> <<"w", "todo">>
               @@ "priority" :> <<"w", "high">> @@ "created" :> <<"w", "2">>
               @@ "updated" :> <<"w", "2">>),
   body |-> <<"n", "x">>]

\* the header of WellFormedB without the key
Without(key) == [k \in DOMAIN WellFormedB.header \ {key} |-> WellFormedB.header[k]]

MalformedB ==
  {[name |-> "b.md", kind |-> "plain"],
   [name |-> "b.md", kind |-> "unreadable"],
   [WellFormedB EXCEPT !.header = Without("title")],
   [WellFormedB EXCEPT !.header = Without("created")],
   [WellFormedB EXCEPT !.header = Without("status")],
   [WellFormedB EXCEPT !.header["status"] = <<"w", "blocked">>],
   [WellFormedB EXCEPT !.header["priority"] = <<"w">>]}

Folders ==
  {<<fa>> : fa \in FilesA}
    \cup {<<fa, fb>> : fa \in FilesA, fb \in {WellFormedB} \cup MalformedB}
    \cup {<<fb, fa>> : fa \in FilesA, fb \in {WellFormedB} \cup MalformedB}

\* nothing has been called yet
NoCall == [op |-> "none"]

\* the time of every update
UpdateTime == <<"9">>

InitFiles ==
  /\ AtRest
  /\ specs = [id \in Items |-> [status |-> "todo", content |-> <<OpenHigh, OpenNorm>>,
                                priority |-> SpecPriority(id), created |-> SpecCreated(id)]]
  /\ dir = DirOrder
  /\ picked = <<>>
  /\ arg \in Folders
  /\ ret = NoCall

\* the call op(id, input) on the folder, with what it leaves and returns
CalledOn(op, id, input, result) ==
  /\ ret = NoCall
  /\ arg' = result.folder
  /\ ret' = [op |-> op, id |-> id, input |-> input, before |-> arg,
             after |-> result.folder, ret |-> result.ret]
  /\ UNCHANGED <<specs, ctl, dir, picked>>

CallUpdateSpecStatus(id, status) ==
  CalledOn("status", id, status, updateSpecStatusFile(arg, id, status, UpdateTime))

CallUpdateSpecContent(id, newContent) ==
  CalledOn("content", id, newContent, updateSpecContentFile(arg, id, newContent, UpdateTime))

CallListSpecs ==
  CalledOn("list", <<>>, <<>>, [folder |-> arg, ret |-> listSpecFiles(arg)])

NextFiles ==
  \/ \E id \in {<<"a">>, <<"b">>}, status \in StatusTexts : CallUpdateSpecStatus(id, status)
  \/ \E id \in {<<"a">>, <<"b">>}, newContent \in {<<"x", "n">>} :
        CallUpdateSpecContent(id, newContent)
  \/ CallListSpecs

SpecFiles == InitFiles /\ [][NextFiles]_vars

\* what an update left of the file it wrote: the same id, title, creation
\* date and priority, and of status and content the one it was not about
KeptByUpdate(before, after, op) ==
  /\ after.id = before.id
  /\ after.title = before.title
  /\ after.created = before.created
  /\ after.priority = before.priority
  /\ op = "status" => after.content = before.content
  /\ op = "content" => after.status = before.status

(***************************************************************************)
(* C27: an update of the status or of the content of a work item leaves    *)
(* its creation date, its id and its title as they were: read again, the   *)
(* item differs from what it was only in its status (or its content) and   *)
(* its update date, and no other file is touched.                          *)
(***************************************************************************)
C27_UpdateKeepsRest ==
  ret.op \in {"status", "content"} /\ ret.ret # {} =>
    /\ Len(ret.after) = Len(ret.before)
    /\ \A k \in 1..Len(ret.before) :
         IF ret.before[k].name = (CHOOSE x \in ret.ret : TRUE).filepath
           THEN LET before == parseSpecFile(ret.before[k])
                    after == parseSpecFile(ret.after[k])
                IN  /\ before # {} /\ after # {}
                    /\ \A b \in before, a \in after : KeptByUpdate(b, a, ret.op)
           ELSE ret.after[k] = ret.before[k]

\* the folder without its malformed files
WithoutMalformed(folder) ==
  LET WellFormedFile(f) == f \notin MalformedB IN SelectSeq(folder, WellFormedFile)

(***************************************************************************)
(* C28: a malformed spec file is left out of the listing, on which the     *)
(* ranking works, and stops nothing: listSpecs returns what it returns     *)
(* for the folder without the file, and no entry of it is the file.        *)
(***************************************************************************)
C28_MalformedExcluded ==
  ret.op = "list" =>
    /\ ret.ret = listSpecFiles(WithoutMalformed(ret.before))
    /\ \A k \in 1..Len(ret.before) : \A j \in 1..Len(ret.ret) :
         ret.before[k] \in MalformedB => ret.ret[j].filepath # ret.before[k].name
    /\ ret.after = ret.before

\* a folder with a malformed file first and a well-formed one has been listed
C28_Witness ==
  /\ ret.op = "list"
  /\ Len(ret.before) = 2 /\ ret.before[1] \in MalformedB
  /\ Len(ret.ret) = 1 /\ ret.ret[1].filepath = "a.md"

(***************************************************************************)
(* C29: once a completion is detected and the item recorded as done, a     *)
(* failure of what follows on the repository (the commit of the status     *)
(* change, the push, the pull request) is only warned about: the step      *)
(* leaves the item done, the session and the progress log cleared and the  *)
(* command running or returned in order, not aborted by the exception.     *)
(* (A step in which the user cancels the pull request prompt is no         *)
(* failure and is left aside.)                                             *)
(***************************************************************************)
C29_VcsFailureOnlyWarned ==
  [][/\ run.last = "invoked" /\ run'.last = "complete"
     /\ specs'[run'.item].status = "done"
     /\ run'.reason # "cancelled"
     => /\ ~session'.exists
        /\ ~progress'.exists
        /\ run'.reason # "crashed"]_vars

(***************************************************************************)
(* Mode resolution.  An input is the two flags, whether the configuration  *)
(* file exists, its mode ("unset" when it has none), whether the specs     *)
(* folder exists and whether a Notion board is configured; without the     *)
(* file there is neither a mode nor a board.                               *)
(***************************************************************************)
ModeInputs ==
  {m \in [local : BOOLEAN, notion : BOOLEAN, configFile : BOOLEAN,
          mode : {"local", "notion", "unset"}, hasSpecs : BOOLEAN, hasNotion : BOOLEAN] :
     ~m.configFile => m.mode = "unset" /\ ~m.hasNotion}

\* resolveMode(flags, config, cwd); a throw is the name of the error
resolveMode(m) ==
  IF m.local THEN "local"
  ELSE IF m.notion THEN "notion"
  ELSE IF m.mode # "unset" THEN m.mode
  ELSE IF m.hasSpecs /\ m.hasNotion THEN "ModeResolutionError"
  ELSE IF m.hasSpecs THEN "local"
  ELSE IF m.hasNotion THEN "notion"
  ELSE "ModeResolutionError"

\* the mode loopCommand resolves before it branches
loopCommandMode(m) ==
  IF m.local THEN "local"
  ELSE IF m.notion THEN "notion"
  ELSE IF m.configFile THEN resolveMode(m)
  ELSE "local"

\* the mode runCommand resolves before it branches
runCommandMode(m) ==
  IF m.local THEN "local"
  ELSE IF m.notion THEN "notion"
  ELSE IF m.configFile THEN resolveMode(m)
  ELSE "local"

InitMode ==
  /\ AtRest
  /\ specs = [id \in Items |-> [status |-> "todo", content |-> <<OpenHigh, OpenNorm>>,
                                priority |-> SpecPriority(id), created |-> SpecCreated(id)]]
  /\ dir = DirOrder
  /\ picked = <<>>
  /\ arg \in ModeInputs
  /\ ret = NoCall

\* the mode is resolved by op and comes out as mode
Resolved(op, mode) ==
  /\ ret = NoCall
  /\ ret' = [op |-> op, ret |-> mode]
  /\ UNCHANGED <<specs, ctl, dir, picked, arg>>

CallResolveMode == Resolved("resolveMode", resolveMode(arg))

CallLoopCommand == Resolved("loopCommand", loopCommandMode(arg))

CallRunCommand == Resolved("runCommand", runCommandMode(arg))

NextMode ==
  \/ CallResolveMode
  \/ CallLoopCommand
  \/ CallRunCommand

SpecMode == InitMode /\ [][NextMode]_vars

(***************************************************************************)
(* C30: the mode is resolved by flags, then config.mode, then detection:   *)
(* --local gives local, otherwise --notion gives notion, otherwise a set   *)
(* config.mode is taken as it is, otherwise specs alone give local and a   *)
(* Notion board alone gives notion, and both or neither is a configuration *)
(* error raised before any loop starts.                                    *)
(***************************************************************************)
C30_ModePrecedence ==
  ret # NoCall =>
    ret.ret = (IF arg.local THEN "local"
               ELSE IF arg.notion THEN "notion"
               ELSE IF arg.mode # "unset" THEN arg.mode
               ELSE IF arg.hasSpecs /\ ~arg.hasNotion THEN "local"
               ELSE IF arg.hasNotion /\ ~arg.hasSpecs THEN "notion"
               ELSE "ModeResolutionError")

(***************************************************************************)
(* C31: no stale progress between work items: whenever an agent is invoked *)
(* for a work item, progress.txt is there, was initialised for that item   *)
(* and holds no entry appended while another item was being worked on.     *)
(***************************************************************************)
C31_NoStaleProgress ==
  pc = "agent" =>
    /\ progress.exists
    /\ progress.label = run.item
    /\ progress.entries \subseteq {run.item}

(***************************************************************************)
(* C33: after each refresh of the cached content of the session, its       *)
(* total and completed counts are the number of checklist lines and the    *)
(* number of checked checklist lines of that content.                      *)
(***************************************************************************)
C33_CountsMatchContent ==
  \A k \in 1..Len(calls) :
    calls[k].op = "prd" /\ calls[k].ret.type = "object" =>
      LET stored == calls[k].after.value.fields
          content == calls[k].input
      IN  /\ Get(stored, "prdContent") = Str(content)
          /\ Get(stored, "totalSteps") =
               Num(Cardinality(OpenChecklistLines(content))
                   + Cardinality(CheckedChecklistLines(content)))
          /\ Get(stored, "completedSteps") = Num(Cardinality(CheckedChecklistLines(content)))

(***************************************************************************)
(* C35: for every work-item content, riskRatio and progress are computed   *)
(* over the same task list: the number of open tasks the risk ratio is     *)
(* taken over is the total task count less the completed task count that   *)
(* progress uses.                                                          *)
(***************************************************************************)
C35_SameTaskList ==
  ret # NoMetrics =>
    LET uncompletedTasks == getUncompletedTasks(arg)
        t == countSpecTasks(arg)
    IN  /\ Len(uncompletedTasks) = t.total - t.completed
        /\ (uncompletedTasks # <<>> => ret.riskRatio.den = t.total - t.completed)

(***************************************************************************)
(* C36: at every agent invocation made by the local loop a session exists  *)
(* whose item is the work item being worked on, and the persisted status   *)
(* of that work item is in-progress.                                       *)
(***************************************************************************)
C36_InvokedItemInProgress ==
  cmd = "loop_local" /\ pc = "agent" =>
    /\ session.exists
    /\ session.ticketId = run.item
    /\ run.item = loc.sel.id
    /\ specs[run.item].status = "in-progress"

\* the second work item of a run is invoked after the first was completed
C36_Witness ==
  /\ cmd = "loop_local" /\ pc = "agent"
  /\ run.completed
  /\ session.ticketId = run.item
  /\ specs[run.item].status = "in-progress"
  /\ \E id \in Items : id # run.item /\ specs[id].status = "done"

(***************************************************************************)
(* C37: for every terminal reason (user_cancelled, error,                  *)
(* all_specs_complete, max_iterations) the iteration total that a local    *)
(* loop run reports equals the number of non-checkpoint agent invocations  *)
(* the run actually made.                                                  *)
(***************************************************************************)
C37_ReportedTotalIsInvocations ==
  /\ cmd = "loop_local" /\ pc = "done"
  /\ run.reason \in {"user_cancelled", "error", "all_specs_complete", "max_iterations"}
  => loc.used = run.nonCkpt

(***************************************************************************)
(* Two controller instances in one working directory.  Each runs the local *)
(* loop: initSession for its work item, incrementIteration before every    *)
(* invocation, clearSession when the item is complete.  Every readFileSync *)
(* and every writeFileSync is a step of its own; nothing orders the steps  *)
(* of one instance with respect to those of the other.                     *)
(***************************************************************************)
\* const newIteration = session.iteration + 1, on the session that
\* incrementIteration loaded itself: the variant takes the session that
\* updateSession loaded
newIterationReread(first, second) ==
  AddOne(Get(Spread(loadCurrentSessionFrom(second)), "iteration"))

newIteration(first, second) ==
  AddOne(Get(Spread(loadCurrentSessionFrom(first)), "iteration"))

TicketOf(data) == data["ticketId"].s

\* initSession(cwd, data): one writeFileSync
InstInitSession(i, data) ==
  /\ inst[i].pc = "start"
  /\ file' = initSessionFile(file, data, Now).file
  /\ inst' = [inst EXCEPT ![i].pc = "ready", ![i].item = TicketOf(data)]
  /\ UNCHANGED <<specs, session, progress, cmd, pc, loc, run, runs, out, detected,
                  dir, picked, arg, ret, calls, oc>>

\* incrementIteration: loadCurrentSession, and return 0 if there is none
InstIncrementLoad(i) ==
  /\ inst[i].pc = "ready"
  /\ inst[i].rounds < MaxIterations
  /\ inst' = IF Falsy(loadCurrentSessionFrom(file))
               THEN [inst EXCEPT ![i].rounds = @ + 1, ![i].last = Num(0)]
               ELSE [inst EXCEPT ![i].pc = "loaded", ![i].first = file]
  /\ UNCHANGED <<specs, session, progress, cmd, pc, loc, run, runs, out, detected,
                  dir, picked, arg, ret, file, calls, oc>>

\* updateSession called by incrementIteration: its own loadCurrentSession
InstUpdateLoad(i) ==
  /\ inst[i].pc = "loaded"
  /\ inst' = [inst EXCEPT ![i].pc = "merged", ![i].second = file]
  /\ UNCHANGED <<specs, session, progress, cmd, pc, loc, run, runs, out, detected,
                  dir, picked, arg, ret, file, calls, oc>>

\* updateSession: return null if it loaded none, else write the session it
\* loaded with the new count; incrementIteration returns the new count
InstUpdateWrite(i) ==
  /\ inst[i].pc = "merged"
  /\ LET count == newIteration(inst[i].first, inst[i].second)
     IN  /\ file' = IF Falsy(loadCurrentSessionFrom(inst[i].second)) THEN file
                    ELSE updateSessionFile(inst[i].second, "iteration" :> count).file
         /\ inst' = [inst EXCEPT ![i].pc = "ready", ![i].rounds = @ + 1, ![i].last = count]
  /\ UNCHANGED <<specs, session, progress, cmd, pc, loc, run, runs, out, detected,
                  dir, picked, arg, ret, calls, oc>>

\* the work item is complete: clearSession, and the instance is through
InstClearSession(i) ==
  /\ inst[i].pc = "ready"
  /\ inst[i].rounds > 0
  /\ file' = clearSessionFile(file).file
  /\ inst' = [inst EXCEPT ![i].pc = "done"]
  /\ UNCHANGED <<specs, session, progress, cmd, pc, loc, run, runs, out, detected,
                  dir, picked, arg, ret, calls, oc>>

InitRace ==
  /\ AtRest
  /\ specs = [id \in Items |-> [status |-> "todo", content |-> <<OpenHigh, OpenNorm>>,
                                priority |-> SpecPriority(id), created |-> SpecCreated(id)]]
  /\ dir = DirOrder
  /\ picked = <<>>
  /\ arg = <<>>
  /\ ret = "unknown"

NextRace ==
  \/ \E i \in Instances, data \in SessionData : InstInitSession(i, data)
  \/ \E i \in Instances : InstIncrementLoad(i)
  \/ \E i \in Instances : InstUpdateLoad(i)
  \/ \E i \in Instances : InstUpdateWrite(i)
  \/ \E i \in Instances : InstClearSession(i)

SpecRace == InitRace /\ [][NextRace]_vars

IterationIn(f) == Get(Spread(loadCurrentSessionFrom(f)), "iteration")
TicketIn(f) == Get(Spread(loadCurrentSessionFrom(f)), "ticketId")

\* the instance i is between its initSession and its clearSession
Working(i) == inst[i].pc \in {"ready", "loaded", "merged"}

(***************************************************************************)
(* C34: no lock keeps two controller instances in one working directory    *)
(* apart.  Their read-modify-write steps interleave: an instance that      *)
(* finishes an increment after the other instance has counted from the     *)
(* same value leaves the stored count as it was, so its increment is lost; *)
(* and initSession of one instance replaces the session the other instance *)
(* is working on, count included.                                          *)
(***************************************************************************)
C34_InterleavingLosesUpdates ==
  [][\A i \in Instances : \A j \in Instances \ {i} :
       /\ ( /\ inst[i].pc = "merged" /\ inst'[i].pc = "ready"
            /\ ~Falsy(loadCurrentSessionFrom(inst[i].second))
            /\ ~Falsy(loadCurrentSessionFrom(file))
            /\ IterationIn(file) = AddOne(IterationIn(inst[i].first)) )
          => /\ IterationIn(file') = IterationIn(file)
             /\ inst'[i].last = IterationIn(file)
       /\ ( /\ inst[j].pc = "start" /\ inst'[j].pc = "ready"
            /\ Working(i) )
          => /\ TicketIn(file') = Str(inst'[j].item)
             /\ IterationIn(file') = Num(0)
             /\ DOMAIN Spread(loadCurrentSessionFrom(file')) =
                  {"ticketId", "ticketTitle", "ticketUrl", "branch", "startedAt", "iteration"}
    ]_vars

\* instance 1 works on T1 and the file holds the session of T2, written by
\* instance 2; each instance has completed one increment and was told 1, and
\* the file counts 1
C34_Witness ==
  /\ Working(1) /\ inst[1].item = "T1" /\ TicketIn(file) = Str("T2")
  /\ inst[1].rounds = 1 /\ inst[1].last = Num(1)
  /\ inst[2].rounds = 1 /\ inst[2].last = Num(1)
  /\ inst[1].pc = "ready" /\ inst[2].pc = "ready"
  /\ IterationIn(file) = Num(1)

(***************************************************************************)
(* An invocation of runOpenCode, event by event: the controller's steps,   *)
(* the server's handling of the two requests, the agent's events and the   *)
(* timeout.                                                                *)
(***************************************************************************)
MaxAttempts == 2
MaxForeign == 1

\* the text parts of the agent's final message
AgentMessages ==
  { <<<<"S">>>>, <<<<"x">>, <<"S">>>>, <<<<"x", "n">>, <<"S">>>>, <<<<"S", "x">>, <<"n">>>> }

exceptOc == <<specs, session, progress, cmd, pc, loc, run, runs, out, detected,
              dir, picked, arg, ret, file, calls, inst>>

\* the catch block of runOpenCode
Caught(o) ==
  [o EXCEPT !.pc = "returned", !.timer = "cleared",
            !.open = IF o.instance # 0 THEN @ \ {o.instance} ELSE @,
            !.active = IF o.instance # 0 THEN 0 ELSE @,
            !.result = [success |-> FALSE, isComplete |-> FALSE, how |-> "throw"]]

\* the clean-up behind the event loop and the result
Cleaned(o, how) ==
  [o EXCEPT !.pc = "returned", !.timer = "cleared",
            !.open = @ \ {o.instance}, !.active = 0,
            !.result = [success |-> TRUE, isComplete |-> COMPLETE_SIGNAL_REGEX(o.output),
                        how |-> how]]

\* partText.get(part.id) ?? ""
PartTextOf(o, id) == IF id \in DOMAIN o.partText THEN o.partText[id] ELSE <<>>

\* a message.part.updated event of a text part: the delta beyond the text
\* known for the part is added to the output
PartUpdated(o, id, newText) ==
  LET prevText == PartTextOf(o, id)
  IN  [o EXCEPT !.output = IF Len(newText) > Len(prevText)
                             THEN @ \o SubSeq(newText, Len(prevText) + 1, Len(newText))
                             ELSE @,
                !.partText = [k \in DOMAIN @ \cup {id} |-> IF k = id THEN newText ELSE @[k]]]

\* runOpenCode is called: the timeout is armed
CallRunOpenCode ==
  /\ oc.pc = "idle"
  /\ oc' = [oc EXCEPT !.pc = "create", !.timer = "set"]
  /\ UNCHANGED exceptOc

\* one pass of the loop of createOpencodeInstance.  outcome: "ready" (the
\* server is created and answers), "unready" (created, waitForReady throws),
\* "conflict" (createOpencode rejects because of the port), "fail" (it
\* rejects otherwise); after maxAttempts passes the function throws
CreateAttempt(outcome) ==
  /\ oc.pc = "create"
  /\ LET id == oc.attempt + 1
     IN  oc' = IF oc.attempt >= MaxAttempts THEN Caught(oc)
               ELSE CASE outcome = "ready" ->
                           [oc EXCEPT !.open = @ \cup {id}, !.instance = id,
                                      !.active = id, !.pc = "session"]
                      [] outcome = "unready" -> Caught([oc EXCEPT !.open = @ \cup {id}])
                      [] outcome = "conflict" -> [oc EXCEPT !.attempt = id]
                      [] OTHER -> Caught(oc)
  /\ UNCHANGED exceptOc

\* client.session.create()
SessionCreate(ok) ==
  /\ oc.pc = "session"
  /\ oc' = IF ok THEN [oc EXCEPT !.pc = "prompt"] ELSE Caught(oc)
  /\ UNCHANGED exceptOc

\* sessionEvents(...) makes the generator, whose body has not begun, and
\* client.session.prompt(...) is started without being awaited
SendPrompt ==
  /\ oc.pc = "prompt"
  /\ oc' = [oc EXCEPT !.pc = "subscribe", !.prompt = "sent"]
  /\ UNCHANGED exceptOc

\* for await asks the generator for the first event: its body begins with
\* client.event.subscribe()
Subscribe ==
  /\ oc.pc = "subscribe"
  /\ oc' = [oc EXCEPT !.pc = "connecting", !.sub = "sent"]
  /\ UNCHANGED exceptOc

\* an event has arrived on the stream: the generator and the loop body
Receive ==
  /\ oc.pc = "listening"
  /\ oc.stream # <<>>
  /\ oc' = IF oc.aborted THEN Cleaned([oc EXCEPT !.stream = Tail(@)], "timeout")
           ELSE CASE Head(oc.stream).type = "part" ->
                       PartUpdated([oc EXCEPT !.stream = Tail(@)],
                                   Head(oc.stream).id, Head(oc.stream).text)
                  [] Head(oc.stream).type = "error" ->
                       [oc EXCEPT !.stream = Tail(@), !.output = @ \o <<"n", "x">>]
                  [] Head(oc.stream).type = "idle" ->
                       Cleaned([oc EXCEPT !.stream = Tail(@)], "idle")
                  [] OTHER -> [oc EXCEPT !.stream = Tail(@)]
  /\ UNCHANGED exceptOc

\* killActiveProcess(), called by the controller behind its loop
killActiveProcess ==
  /\ oc.pc = "returned"
  /\ ~oc.killed
  /\ oc' = [oc EXCEPT !.killed = TRUE,
                      !.open = IF oc.active # 0 THEN @ \ {oc.active} ELSE @,
                      !.active = 0]
  /\ UNCHANGED exceptOc

\* the server takes the subscription: client.event.subscribe() resolves
ServerSubscribes ==
  /\ oc.pc = "connecting"
  /\ oc.sub = "sent"
  /\ oc' = [oc EXCEPT !.sub = "established", !.pc = "listening"]
  /\ UNCHANGED exceptOc

\* the server hands the prompt to the agent, which will answer with message
ServerDeliversPrompt(message) ==
  /\ oc.prompt = "sent"
  /\ oc.pc # "returned"
  /\ oc' = [oc EXCEPT !.prompt = "delivered", !.parts = message,
                      !.sent = [k \in 1..Len(message) |-> 0]]
  /\ UNCHANGED exceptOc

\* an event is emitted: it reaches the stream of an established subscription
Emitted(o, event) ==
  IF o.sub = "established" THEN [o EXCEPT !.stream = Append(@, event)]
  ELSE [o EXCEPT !.missed = @ \cup {event.type}]

AgentActive == oc.prompt = "delivered" /\ oc.pc # "returned" /\ ~oc.idle

\* the agent reports the part id grown to its first upTo characters; a part
\* is begun after the parts before it
AgentUpdatesPart(id, upTo) ==
  /\ AgentActive
  /\ id \in 1..Len(oc.parts)
  /\ \A before \in 1..(id - 1) : oc.sent[before] > 0
  /\ upTo \in (oc.sent[id] + 1)..Len(oc.parts[id])
  /\ oc' = Emitted([oc EXCEPT !.sent[id] = upTo],
                   [type |-> "part", id |-> id, text |-> SubSeq(oc.parts[id], 1, upTo)])
  /\ UNCHANGED exceptOc

\* a session.error event
AgentErrs ==
  /\ AgentActive
  /\ ~oc.erred
  /\ \A id \in 1..Len(oc.parts) : oc.sent[id] = 0
  /\ oc' = Emitted([oc EXCEPT !.erred = TRUE], [type |-> "error", id |-> 0, text |-> <<>>])
  /\ UNCHANGED exceptOc

\* the message is finished: session.idle
AgentGoesIdle ==
  /\ AgentActive
  /\ \A id \in 1..Len(oc.parts) : oc.sent[id] = Len(oc.parts[id])
  /\ oc' = Emitted([oc EXCEPT !.idle = TRUE], [type |-> "idle", id |-> 0, text |-> <<>>])
  /\ UNCHANGED exceptOc

\* an event that leaves the invocation as it is: of another session (passed
\* over by the generator), of the user's message or of a tool part
OtherEvent ==
  /\ oc.pc \in {"connecting", "listening"}
  /\ oc.foreign < MaxForeign
  /\ oc' = Emitted([oc EXCEPT !.foreign = @ + 1], [type |-> "other", id |-> 0, text |-> <<>>])
  /\ UNCHANGED exceptOc

\* the timeout fires: abortController.abort()
Timeout ==
  /\ oc.timer = "set"
  /\ ~oc.aborted
  /\ oc' = [oc EXCEPT !.aborted = TRUE]
  /\ UNCHANGED exceptOc

InitAgent ==
  /\ AtRest
  /\ specs = [id \in Items |-> [status |-> "todo", content |-> <<OpenHigh, OpenNorm>>,
                                priority |-> SpecPriority(id), created |-> SpecCreated(id)]]
  /\ dir = DirOrder
  /\ picked = <<>>
  /\ arg = <<>>
  /\ ret = "unknown"

\* the steps of the controller's process
ControllerStep ==
  \/ CallRunOpenCode
  \/ \E outcome \in {"ready", "unready", "conflict", "fail"} : CreateAttempt(outcome)
  \/ \E ok \in BOOLEAN : SessionCreate(ok)
  \/ SendPrompt
  \/ Subscribe
  \/ Receive
  \/ killActiveProcess

\* the server's handling of a request it has received
ServerStep ==
  \/ ServerSubscribes
  \/ \E message \in AgentMessages : ServerDeliversPrompt(message)

\* what the agent and the clock may do, or not do
AgentStep ==
  \/ \E id \in 1..2, upTo \in 1..2 : AgentUpdatesPart(id, upTo)
  \/ AgentErrs
  \/ AgentGoesIdle
  \/ OtherEvent
  \/ Timeout

NextAgent == ControllerStep \/ ServerStep \/ AgentStep

SpecAgent == InitAgent /\ [][NextAgent]_vars

\* the controller's process is scheduled and the server answers the requests
\* it has; nothing obliges the agent to emit an event
SpecAgentFair ==
  InitAgent /\ [][NextAgent]_vars /\ WF_vars(ControllerStep) /\ WF_vars(ServerStep)

(***************************************************************************)
(* C32: every agent invocation is bounded in time: once the configured     *)
(* timeout has elapsed the invocation returns to the controller, even if   *)
(* the agent emits no further event after that moment.                     *)
(***************************************************************************)
C32_TimeoutReturns == oc.aborted ~> oc.pc = "returned"

(***************************************************************************)
(* C38: the event subscription is established before the prompt is         *)
(* delivered to the agent, so that no event of the session, its idle event *)
(* in particular, is emitted before the controller is listening.           *)
(***************************************************************************)
C38_SubscribedBeforePrompt ==
  /\ oc.prompt = "delivered" => oc.sub = "established"
  /\ oc.missed \cap {"part", "error", "idle"} = {}

(***************************************************************************)
(* C39: every agent server started by an invocation is closed by the time  *)
(* the invocation returns, on success, on error and on timeout, also when  *)
(* the server was created but never became ready; after the invocation has *)
(* returned no active instance remains recorded.                           *)
(***************************************************************************)
C39_ServersClosedOnReturn ==
  oc.pc = "returned" => oc.open = {} /\ oc.active = 0

\* the text of the message: its parts one after the other
RECURSIVE MessageText(_)
MessageText(parts) ==
  IF parts = <<>> THEN <<>> ELSE Head(parts) \o MessageText(Tail(parts))

(***************************************************************************)
(* C40: completion detection depends only on the text the agent produced:  *)
(* when every event of the agent's message has been received and the       *)
(* session has gone idle, the invocation reports complete if and only if   *)
(* the message contains the completion sentinel alone on a line, however   *)
(* the text was split into parts and update events and however the updates *)
(* of different parts interleaved.                                         *)
(***************************************************************************)
C40_CompleteIffSentinelInMessage ==
  /\ oc.pc = "returned" /\ oc.result.how = "idle"
  /\ oc.missed = {} /\ ~oc.erred
  => oc.result.isComplete = COMPLETE_SIGNAL_REGEX(MessageText(oc.parts))

=============================================================================
